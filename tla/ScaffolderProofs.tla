----------------------------- MODULE ScaffolderProofs -----------------------------
(***************************************************************************)
(* The tasks of the scaffolder, proved for any number of tasks, names,     *)
(* providers and environments, and for deletions asked for any number of   *)
(* times: an application in the catalog is whole, whatever became of the   *)
(* tasks and the applications of its name before it; and the providers it  *)
(* was created for serve what the portal and its jobs ask of them.         *)
(***************************************************************************)
EXTENDS Scaffolder, TLAPS

-------------------------------------------------------------------------------
(* Type correctness, in parts: no action changes variables of all of them.     *)

EnvOK ==
  /\ stack \in [Providers -> {"none", "up", "gone"}]
  /\ recorded \subseteq Providers /\ listed \subseteq Providers /\ envs \subseteq Envs
  /\ declared \in [Envs -> SUBSET Providers] /\ related \in [Envs -> SUBSET Providers]

StepOK == step \in [Tasks -> Steps] /\ why \in [Tasks -> Reasons]
NameOK == name \in [Tasks -> Names] /\ env \in [Tasks -> Envs] /\ setting \in Settings

ReadOK ==
  /\ refs \in [Tasks -> SUBSET Providers] /\ found \in [Tasks -> SUBSET Providers]
  /\ ready \in [Tasks -> SUBSET Providers] /\ left \in [Tasks -> SUBSET Providers]
  /\ files \in [Tasks -> SUBSET Providers] /\ at \in [Tasks -> Providers \cup {None}]

MadeOK ==
  /\ secret \in [Names -> Tasks \cup {None}] /\ token \in [Names -> Tasks \cup {None}]
  /\ repo \in [Names -> Tasks \cup {None}] /\ app \in [Names -> Tasks \cup {None}]

CardOK == pending \subseteq Requests /\ clicks \in [Tasks -> 0..MaxClicks]

\* The parts together are the type invariant.
LEMMA TypeParts == TypeOK <=> EnvOK /\ StepOK /\ NameOK /\ ReadOK /\ MadeOK /\ CardOK
BY DEF TypeOK, EnvOK, StepOK, NameOK, ReadOK, MadeOK, CardOK

\* Initially nothing is there but what the setting says.
LEMMA InitTypeOK == Init => TypeOK
<1> SUFFICES ASSUME Init PROVE TypeOK
  OBVIOUS
<1>1. setting \in Settings /\ setting.settled \subseteq Providers
  BY SettingsAssumption DEF Init
<1>2. EnvOK
  BY <1>1 DEF Init, EnvOK
<1>3. StepOK
  BY DEF Init, StepOK, Steps, Reasons
<1>4. NameOK
  BY DEF Init, NameOK
<1>5. ReadOK
  BY DEF Init, ReadOK
<1>6. MadeOK
  BY DEF Init, MadeOK
<1>7. CardOK
  <2>1. 0 \in 0..MaxClicks
    BY ClicksAssumption
  <2> QED
    BY <2>1 DEF Init, CardOK
<1> QED
  BY <1>2, <1>3, <1>4, <1>5, <1>6, <1>7, TypeParts

\* A step to another state of the task is one of the states there are.
LEMMA GotoStepOK ==
  ASSUME StepOK, NEW t \in Tasks, NEW s \in Steps, Goto(t, s)
  PROVE  StepOK'
BY DEF StepOK, Goto

\* So is a failure.
LEMMA FailStepOK ==
  ASSUME StepOK, NEW t \in Tasks, NEW w \in Reasons, Fail(t, w)
  PROVE  StepOK'
BY DEF StepOK, Fail, Steps

-------------------------------------------------------------------------------
(* The actions, by what they change.                                           *)

\* Those of the providers and the environments.
EnvNext ==
  \/ \E p \in Providers :
       CreateProvider(p) \/ Deploy(p) \/ Record(p) \/ DestroyStack(p) \/ Unlist(p)
  \/ \E e \in Envs : PostProcessEntity(e) \/ DeleteEnvironment(e)
  \/ \E e \in Envs, p \in Providers : Attach(e, p) \/ Detach(e, p)

\* The steps of a task that only read.
ReadNext(t) ==
  \/ Start(t) \/ Fault(t) \/ ReadEnvironment(t) \/ ReadProviders(t)
  \/ \E p \in Providers : AssumeRole(t, p) \/ ReadParameters(t, p)
  \/ WriteFiles(t) \/ FetchEntity(t) \/ CreateRepoToken(t)

\* Those that create something.
MakeNext(t) == CreateSecret(t) \/ Publish(t) \/ PutSecret(t) \/ Register(t)

DeleteNext(q) == DeleteRepository(q) \/ DeleteSecret(q) \/ RemoveEntity(q) \/ DeletionFails(q)

\* A step is one of these.
LEMMA NextParts ==
  Next <=> \/ EnvNext
           \/ \E t \in Tasks : ReadNext(t) \/ MakeNext(t) \/ ClickDeleteAll(t)
           \/ \E q \in Requests : DeleteNext(q)
BY Zenon DEF Next, EnvNext, ReadNext, MakeNext, DeleteNext, TaskStep

\* The first change nothing else.
LEMMA EnvNextFrame == EnvNext => OnlyEnvironments
BY Zenon DEF EnvNext, CreateProvider, Deploy, Record, DestroyStack, Unlist, Attach, Detach,
       PostProcessEntity, DeleteEnvironment

\* They keep the types of what they change.
LEMMA EnvNextTypeOK == EnvOK /\ EnvNext => EnvOK'
<1> SUFFICES ASSUME EnvOK, EnvNext PROVE EnvOK'
  OBVIOUS
<1> USE DEF EnvOK
<1>1. ASSUME NEW p \in Providers, CreateProvider(p) PROVE EnvOK'
  BY <1>1 DEF CreateProvider
<1>2. ASSUME NEW p \in Providers, Deploy(p) PROVE EnvOK'
  BY <1>2 DEF Deploy
<1>3. ASSUME NEW p \in Providers, Record(p) PROVE EnvOK'
  BY <1>3 DEF Record
<1>4. ASSUME NEW p \in Providers, DestroyStack(p) PROVE EnvOK'
  BY <1>4 DEF DestroyStack
<1>5. ASSUME NEW p \in Providers, Unlist(p) PROVE EnvOK'
  BY <1>5 DEF Unlist
<1>6. ASSUME NEW e \in Envs, PostProcessEntity(e) PROVE EnvOK'
  BY <1>6 DEF PostProcessEntity
<1>7. ASSUME NEW e \in Envs, DeleteEnvironment(e) PROVE EnvOK'
  BY <1>7 DEF DeleteEnvironment
<1>8. ASSUME NEW e \in Envs, NEW p \in Providers, Attach(e, p) PROVE EnvOK'
  BY <1>8 DEF Attach
<1>9. ASSUME NEW e \in Envs, NEW p \in Providers, Detach(e, p) PROVE EnvOK'
  BY <1>9 DEF Detach
<1> QED
  BY <1>1, <1>2, <1>3, <1>4, <1>5, <1>6, <1>7, <1>8, <1>9 DEF EnvNext

\* The steps that read change nothing that is created, and no request.
LEMMA ReadNextFrame ==
  ASSUME NEW t \in Tasks, ReadNext(t)
  PROVE  OnlyTask /\ UNCHANGED madeVars
BY Zenon DEF ReadNext, Start, Fault, ReadEnvironment, ReadProviders, AssumeRole, ReadParameters,
       WriteFiles, FetchEntity, CreateRepoToken

\* Nor do those that create change anything else of a task than its step.
LEMMA MakeNextFrame ==
  ASSUME NEW t \in Tasks, MakeNext(t)
  PROVE  OnlyTask /\ UNCHANGED readVars
BY Zenon DEF MakeNext, CreateSecret, Publish, PutSecret, Register

\* A read keeps the types of what it reads, and of the step.
LEMMA ReadNextTypeOK ==
  ASSUME StepOK, ReadOK, EnvOK, NameOK, NEW t \in Tasks, ReadNext(t)
  PROVE  StepOK' /\ ReadOK'
<1> DEFINE Steady == UNCHANGED readVars => ReadOK'
<1>0. Steady
  BY DEF ReadOK, readVars
<1> HIDE DEF Steady
<1>1. CASE Start(t)
  <2>1. Goto(t, "environment") /\ UNCHANGED readVars
    BY <1>1 DEF Start
  <2>2. "environment" \in Steps
    BY DEF Steps
  <2> QED
    BY <2>1, <2>2, <1>0, GotoStepOK DEF Steady
<1>2. CASE Fault(t)
  <2>1. Fail(t, "fault") /\ UNCHANGED readVars
    BY <1>2 DEF Fault
  <2>2. "fault" \in Reasons
    BY DEF Reasons
  <2> QED
    BY <2>1, <2>2, <1>0, FailStepOK DEF Steady
<1>3. CASE ReadEnvironment(t)
  <2>1. Goto(t, "providers") \/ Fail(t, "environment")
    BY <1>3 DEF ReadEnvironment
  <2>2. "providers" \in Steps /\ "environment" \in Reasons
    BY DEF Steps, Reasons
  <2>3. StepOK'
    BY <2>1, <2>2, GotoStepOK, FailStepOK
  <2>4. env[t] \in Envs /\ related[env[t]] \subseteq Providers
    BY DEF NameOK, EnvOK
  <2>5. ReadOK'
    BY <1>3, <2>4 DEF ReadEnvironment, ReadOK
  <2> QED
    BY <2>3, <2>5
<1>4. CASE ReadProviders(t)
  <2>1. Goto(t, "provider") /\ "provider" \in Steps
    BY <1>4 DEF ReadProviders, Steps
  <2>2. PICK items \in SUBSET Providers :
          /\ found' = [found EXCEPT ![t] = items]
          /\ ready' = [ready EXCEPT ![t] = items \cap recorded]
          /\ left' = [left EXCEPT ![t] = items]
    <3> DEFINE items == {p \in refs[t] \cap listed : Keyed(p)}
    <3>1. items \in SUBSET Providers
      BY DEF EnvOK
    <3>2. /\ found' = [found EXCEPT ![t] = items]
          /\ ready' = [ready EXCEPT ![t] = items \cap recorded]
          /\ left' = [left EXCEPT ![t] = items]
      BY <1>4 DEF ReadProviders
    <3> QED
      BY <3>1, <3>2
  <2>3. items \cap recorded \in SUBSET Providers
    OBVIOUS
  <2>4. UNCHANGED <<refs, at, files>>
    BY <1>4 DEF ReadProviders
  <2>5. ReadOK'
    BY <2>2, <2>3, <2>4 DEF ReadOK
  <2> QED
    BY <2>1, <2>5, GotoStepOK
<1>5. ASSUME NEW p \in Providers, AssumeRole(t, p) PROVE StepOK' /\ ReadOK'
  <2>1. Fail(t, "unrecorded") \/ Fail(t, "role") \/ Goto(t, "provider")
    BY <1>5 DEF AssumeRole
  <2>2. "provider" \in Steps /\ "unrecorded" \in Reasons /\ "role" \in Reasons
    BY DEF Steps, Reasons
  <2>3. at' = [at EXCEPT ![t] = p] /\ UNCHANGED <<refs, found, ready, left, files>>
    BY <1>5 DEF AssumeRole
  <2>4. StepOK'
    BY <2>1, <2>2, GotoStepOK, FailStepOK
  <2>5. ReadOK'
    BY <2>3 DEF ReadOK
  <2> QED
    BY <2>4, <2>5
<1>6. ASSUME NEW p \in Providers, ReadParameters(t, p) PROVE StepOK' /\ ReadOK'
  <2>1. Fail(t, "parameter") \/ Goto(t, "provider")
    BY <1>6 DEF ReadParameters
  <2>2. "provider" \in Steps /\ "parameter" \in Reasons
    BY DEF Steps, Reasons
  <2>3. /\ \/ /\ files' = [files EXCEPT ![t] = @ \cup {p}]
              /\ left' = [left EXCEPT ![t] = @ \ {p}]
              /\ at' = [at EXCEPT ![t] = None]
           \/ UNCHANGED <<files, left, at>>
        /\ UNCHANGED <<refs, found, ready>>
    BY <1>6 DEF ReadParameters
  <2>4. StepOK'
    BY <2>1, <2>2, GotoStepOK, FailStepOK
  <2>5. ReadOK'
    BY <2>3 DEF ReadOK
  <2> QED
    BY <2>4, <2>5
<1>7. CASE WriteFiles(t)
  <2>1. Goto(t, "secret") /\ UNCHANGED readVars
    BY <1>7 DEF WriteFiles
  <2>2. "secret" \in Steps
    BY DEF Steps
  <2> QED
    BY <2>1, <2>2, <1>0, GotoStepOK DEF Steady
<1>8. CASE FetchEntity(t)
  <2>1. (Goto(t, "publish") \/ Fail(t, "environment")) /\ UNCHANGED readVars
    BY <1>8 DEF FetchEntity
  <2>2. "publish" \in Steps /\ "environment" \in Reasons
    BY DEF Steps, Reasons
  <2> QED
    BY <2>1, <2>2, <1>0, GotoStepOK, FailStepOK DEF Steady
<1>9. CASE CreateRepoToken(t)
  <2>1. (Goto(t, "putSecret") \/ Fail(t, "repository")) /\ UNCHANGED readVars
    BY <1>9 DEF CreateRepoToken
  <2>2. "putSecret" \in Steps /\ "repository" \in Reasons
    BY DEF Steps, Reasons
  <2> QED
    BY <2>1, <2>2, <1>0, GotoStepOK, FailStepOK DEF Steady
<1> QED
  BY <1>1, <1>2, <1>3, <1>4, <1>5, <1>6, <1>7, <1>8, <1>9 DEF ReadNext

\* What is created is created by a task.
LEMMA MakeNextTypeOK ==
  ASSUME StepOK, MadeOK, NameOK, NEW t \in Tasks, MakeNext(t)
  PROVE  StepOK' /\ MadeOK'
<1>0. name[t] \in Names
  BY DEF NameOK
<1>s. /\ {"entity", "repoToken", "register", "done"} \subseteq Steps
      /\ {"fault", "secret", "repository", "registered"} \subseteq Reasons
  BY DEF Steps, Reasons
<1>1. CASE CreateSecret(t)
  <2>1. Goes(t, "entity") \/ Fail(t, "secret")
    BY <1>1 DEF CreateSecret
  <2>2. StepOK'
    BY <2>1, <1>s, GotoStepOK, FailStepOK DEF Goes
  <2>3. MadeOK'
    BY <1>1, <1>0 DEF CreateSecret, MadeOK
  <2> QED
    BY <2>2, <2>3
<1>2. CASE Publish(t)
  <2>1. Goes(t, "repoToken") \/ Fail(t, "repository")
    BY <1>2 DEF Publish
  <2>2. StepOK'
    BY <2>1, <1>s, GotoStepOK, FailStepOK DEF Goes
  <2>3. MadeOK'
    BY <1>2, <1>0 DEF Publish, MadeOK
  <2> QED
    BY <2>2, <2>3
<1>3. CASE PutSecret(t)
  <2>1. Goes(t, "register") \/ Fail(t, "secret")
    BY <1>3 DEF PutSecret
  <2>2. StepOK'
    BY <2>1, <1>s, GotoStepOK, FailStepOK DEF Goes
  <2>3. MadeOK'
    BY <1>3, <1>0 DEF PutSecret, MadeOK
  <2> QED
    BY <2>2, <2>3
<1>4. CASE Register(t)
  <2>1. Goes(t, "done") \/ Fail(t, "repository") \/ Fail(t, "registered")
    BY <1>4 DEF Register
  <2>2. StepOK'
    BY <2>1, <1>s, GotoStepOK, FailStepOK DEF Goes
  <2>3. MadeOK'
    BY <1>4, <1>0 DEF Register, MadeOK
  <2> QED
    BY <2>2, <2>3
<1> QED
  BY <1>1, <1>2, <1>3, <1>4 DEF MakeNext

\* A request is numbered below the bound of the clicks.
LEMMA ClickTypeOK ==
  ASSUME CardOK, NameOK, NEW t \in Tasks, ClickDeleteAll(t)
  PROVE  CardOK'
<1>1. /\ clicks[t] < setting.clicks
      /\ pending' = pending \cup {Request(t, what) : what \in {"repository", "secret", "entity"}}
      /\ clicks' = [clicks EXCEPT ![t] = @ + 1]
  BY DEF ClickDeleteAll
<1>2. setting.clicks \in 0..MaxClicks /\ clicks[t] \in 0..MaxClicks
  BY SettingsAssumption DEF NameOK, CardOK
<1>3. clicks[t] + 1 \in 0..MaxClicks
  BY <1>1, <1>2, ClicksAssumption
<1>4. \A what \in {"repository", "secret", "entity"} : Request(t, what) \in Requests
  BY <1>2 DEF Request, Requests
<1> QED
  BY <1>1, <1>3, <1>4 DEF CardOK

\* A deletion leaves nothing in the place of what it deletes.
LEMMA DeleteTypeOK ==
  ASSUME CardOK, MadeOK, NEW q \in Requests, DeleteNext(q)
  PROVE  /\ CardOK' /\ MadeOK'
         /\ UNCHANGED <<setting, envVars, taskVars, clicks>>
         /\ q \in pending /\ pending' = pending \ {q}
<1>1. OnlyDeletes(q)
  BY DEF DeleteNext, DeleteRepository, DeleteSecret, RemoveEntity, DeletionFails
<1>2. CardOK'
  BY <1>1 DEF OnlyDeletes, CardOK
<1>3. MadeOK'
  <2>1. CASE DeleteRepository(q)
    BY <2>1 DEF DeleteRepository, MadeOK
  <2>2. CASE DeleteSecret(q)
    BY <2>2 DEF DeleteSecret, MadeOK
  <2>3. CASE RemoveEntity(q)
    BY <2>3 DEF RemoveEntity, MadeOK
  <2>4. CASE DeletionFails(q)
    BY <2>4 DEF DeletionFails, MadeOK, madeVars
  <2> QED
    BY <2>1, <2>2, <2>3, <2>4 DEF DeleteNext
<1> QED
  BY <1>1, <1>2, <1>3 DEF OnlyDeletes

\* Every step keeps the types.
LEMMA NextTypeOK == TypeOK /\ [Next]_vars => TypeOK'
<1> SUFFICES ASSUME TypeOK, [Next]_vars PROVE TypeOK'
  OBVIOUS
<1>0. EnvOK /\ StepOK /\ NameOK /\ ReadOK /\ MadeOK /\ CardOK
  BY TypeParts
<1>g. EnvOK' /\ StepOK' /\ NameOK' /\ ReadOK' /\ MadeOK' /\ CardOK' => TypeOK'
  BY TypeParts, PTL
<1>1. UNCHANGED envVars => EnvOK'
  BY <1>0 DEF EnvOK, envVars
<1>2. UNCHANGED <<step, why>> => StepOK'
  BY <1>0 DEF StepOK
<1>3. UNCHANGED <<name, env, setting>> => NameOK'
  BY <1>0 DEF NameOK
<1>4. UNCHANGED readVars => ReadOK'
  BY <1>0 DEF ReadOK, readVars
<1>5. UNCHANGED madeVars => MadeOK'
  BY <1>0 DEF MadeOK, madeVars
<1>6. UNCHANGED cardVars => CardOK'
  BY <1>0 DEF CardOK, cardVars
<1>7. CASE UNCHANGED vars
  BY <1>7, <1>1, <1>2, <1>3, <1>4, <1>5, <1>6, <1>g DEF vars, taskVars
<1>8. CASE EnvNext
  <2>1. OnlyEnvironments /\ EnvOK'
    BY <1>8, <1>0, EnvNextFrame, EnvNextTypeOK
  <2> QED
    BY <2>1, <1>2, <1>3, <1>4, <1>5, <1>6, <1>g DEF OnlyEnvironments, taskVars
<1>9. ASSUME NEW t \in Tasks, ReadNext(t) PROVE TypeOK'
  <2>1. OnlyTask /\ UNCHANGED madeVars /\ StepOK' /\ ReadOK'
    BY <1>9, <1>0, ReadNextFrame, ReadNextTypeOK
  <2> QED
    BY <2>1, <1>1, <1>3, <1>5, <1>6, <1>g DEF OnlyTask
<1>10. ASSUME NEW t \in Tasks, MakeNext(t) PROVE TypeOK'
  <2>1. OnlyTask /\ UNCHANGED readVars /\ StepOK' /\ MadeOK'
    BY <1>10, <1>0, MakeNextFrame, MakeNextTypeOK
  <2> QED
    BY <2>1, <1>1, <1>3, <1>4, <1>6, <1>g DEF OnlyTask
<1>11. ASSUME NEW t \in Tasks, ClickDeleteAll(t) PROVE TypeOK'
  <2>1. CardOK' /\ UNCHANGED <<setting, envVars, taskVars, madeVars>>
    BY <1>11, <1>0, ClickTypeOK DEF ClickDeleteAll
  <2> QED
    BY <2>1, <1>1, <1>2, <1>3, <1>4, <1>5, <1>g DEF taskVars
<1>12. ASSUME NEW q \in Requests, DeleteNext(q) PROVE TypeOK'
  <2>1. CardOK' /\ MadeOK' /\ UNCHANGED <<setting, envVars, taskVars, clicks>>
    BY <1>12, <1>0, DeleteTypeOK
  <2> QED
    BY <2>1, <1>1, <1>2, <1>3, <1>4, <1>g DEF taskVars
<1> QED
  BY <1>7, <1>8, <1>9, <1>10, <1>11, <1>12, NextParts

\* Every variable has its type, whatever the tasks, the providers and the deletions do.
THEOREM TypeCorrect == Spec => []TypeOK
<1>1. Init => TypeOK
  BY InitTypeOK
<1>2. TypeOK /\ [Next]_vars => TypeOK'
  BY NextTypeOK
<1> QED
  BY <1>1, <1>2, PTL DEF Spec

-------------------------------------------------------------------------------
(* The inductive invariant of the names.                                       *)

Ended == {"done", "failed"}
\* The steps of a task that has a secret, and of one that has a repository.
Late == {"entity", "publish", "repoToken", "putSecret", "register"}
Published == {"repoToken", "putSecret", "register"}

\* What the task created is in the catalog, and nobody asked for its deletion.
Stands(t) == app[name[t]] = t /\ clicks[t] = 0

\* Only what is registered can be deleted, and a task that registered has ended.
OnceEnded(t) == (clicks[t] > 0 \/ app[name[t]] = t) => step[t] \in Ended

\* Until then, and as long as it stands, what is by its name is the task's own.
OwnSecret(t) == (step[t] \in Late \/ Stands(t)) => secret[name[t]] = t
OwnToken(t) == (step[t] = "register" \/ Stands(t)) => token[name[t]] = t
OwnRepo(t) == (Calm(name[t]) /\ (step[t] \in Published \/ Stands(t))) => repo[name[t]] = t

\* A request was asked for; while it is under way nobody can publish under that name.
Asked(q) == q.nth < clicks[q.of]
Aimed(q) == (Calm(name[q.of]) /\ q.what = "repository") => repo[name[q.of]] = q.of

\* What is by a name was registered by a task of that name.
OwnNames == \A n \in Names : app[n] # None => name[app[n]] = n

TaskInv(t) == OnceEnded(t) /\ OwnSecret(t) /\ OwnToken(t) /\ OwnRepo(t)
Core ==
  /\ OwnNames
  /\ \A t \in Tasks : TaskInv(t)
  /\ \A q \in pending : Asked(q) /\ Aimed(q)
Inv == TypeOK /\ Core

\* A task is never None.
LEMMA SomeTask == \A t \in Tasks : t # None
BY NoneAssumption

\* Initially nothing is by any name.
LEMMA InitCore == Init => Core
<1> SUFFICES ASSUME Init PROVE Core
  OBVIOUS
<1>1. OwnNames
  BY DEF Init, OwnNames
<1>2. ASSUME NEW t \in Tasks PROVE TaskInv(t)
  <2>1. step[t] = "idle" /\ name[t] \in Names /\ app[name[t]] = None /\ clicks[t] = 0
    BY DEF Init
  <2> QED
    BY <2>1, SomeTask DEF TaskInv, OnceEnded, OwnSecret, OwnToken, OwnRepo, Stands, Late,
                          Published
<1>3. pending = {}
  BY DEF Init
<1> QED
  BY <1>1, <1>2, <1>3 DEF Core

\* A step that changes none of these variables keeps the invariant.
LEMMA CoreFrame ==
  ASSUME Core, UNCHANGED <<step, name>>, UNCHANGED madeVars, UNCHANGED cardVars
  PROVE  Core'
BY DEF Core, OwnNames, TaskInv, OnceEnded, OwnSecret, OwnToken, OwnRepo, Stands, Asked, Aimed,
       Calm, madeVars, cardVars

\* A step that reads leads neither into nor past the steps that create something.
LEMMA ReadStep ==
  ASSUME NEW t \in Tasks, ReadNext(t)
  PROVE  /\ step[t] \notin Ended
         /\ \E s \in Steps :
              /\ step' = [step EXCEPT ![t] = s]
              /\ s \in Late => step[t] \in Late
              /\ s \in Published => step[t] \in Published
              /\ s # "register"
<1> USE DEF Ended, Late, Published, Steps, Goto, Fail
<1>1. CASE Start(t)
  BY <1>1 DEF Start
<1>2. CASE Fault(t)
  BY <1>2 DEF Fault
<1>3. CASE ReadEnvironment(t)
  BY <1>3 DEF ReadEnvironment
<1>4. CASE ReadProviders(t)
  BY <1>4 DEF ReadProviders
<1>5. ASSUME NEW p \in Providers, AssumeRole(t, p)
      PROVE  /\ step[t] = "provider"
             /\ \E s \in {"provider", "failed"} : step' = [step EXCEPT ![t] = s]
  BY <1>5 DEF AssumeRole
<1>6. ASSUME NEW p \in Providers, ReadParameters(t, p)
      PROVE  /\ step[t] = "provider"
             /\ \E s \in {"provider", "failed"} : step' = [step EXCEPT ![t] = s]
  BY <1>6 DEF ReadParameters
<1>7. CASE WriteFiles(t)
  BY <1>7 DEF WriteFiles
<1>8. CASE FetchEntity(t)
  BY <1>8 DEF FetchEntity
<1>9. CASE CreateRepoToken(t)
  BY <1>9 DEF CreateRepoToken
<1>10. CASE \E p \in Providers : AssumeRole(t, p) \/ ReadParameters(t, p)
  BY <1>10, <1>5, <1>6
<1> QED
  BY <1>1, <1>2, <1>3, <1>4, <1>7, <1>8, <1>9, <1>10 DEF ReadNext

\* So it keeps the invariant.
LEMMA ReadCore ==
  ASSUME TypeOK, Core, NEW t \in Tasks, ReadNext(t)
  PROVE  Core'
<1>1. /\ name' = name /\ pending' = pending /\ clicks' = clicks
      /\ secret' = secret /\ token' = token /\ repo' = repo /\ app' = app
  BY ReadNextFrame DEF OnlyTask, madeVars, cardVars
<1>2. PICK s \in Steps :
        /\ step[t] \notin Ended
        /\ step' = [step EXCEPT ![t] = s]
        /\ s \in Late => step[t] \in Late
        /\ s \in Published => step[t] \in Published
        /\ s # "register"
  BY ReadStep
<1>3. step \in [Tasks -> Steps]
  BY DEF TypeOK
<1>4. ASSUME NEW u \in Tasks PROVE TaskInv(u)'
  <2>0. TaskInv(u)
    BY DEF Core
  <2>1. CASE u # t
    <3>1. step'[u] = step[u]
      BY <2>1, <1>2, <1>3
    <3> QED
      BY <3>1, <2>0, <1>1 DEF TaskInv, OnceEnded, OwnSecret, OwnToken, OwnRepo, Stands, Calm
  <2>2. CASE u = t
    <3>1. step'[t] = s
      BY <1>2, <1>3
    <3> QED
      BY <3>1, <2>2, <2>0, <1>1, <1>2
         DEF TaskInv, OnceEnded, OwnSecret, OwnToken, OwnRepo, Stands, Calm
  <2> QED
    BY <2>1, <2>2
<1>5. OwnNames' /\ \A q \in pending' : Asked(q)' /\ Aimed(q)'
  BY <1>1 DEF Core, OwnNames, Asked, Aimed, Calm
<1> QED
  BY <1>4, <1>5 DEF Core

\* A name that is free is not one of a task in its late steps, nor of one that stands.
LEMMA FreeName ==
  ASSUME TypeOK, Core, NEW t \in Tasks, NEW u \in Tasks, name[u] = name[t], secret[name[t]] = None
  PROVE  step[u] \notin Late /\ ~Stands(u)
<1>1. OwnSecret(u)
  BY DEF Core, TaskInv
<1> QED
  BY <1>1, SomeTask DEF OwnSecret

\* A step of a task moves that task only.
LEMMA MovesOne ==
  ASSUME TypeOK, NEW t \in Tasks, NEW s, step' = [step EXCEPT ![t] = s]
  PROVE  step'[t] = s /\ \A u \in Tasks \ {t} : step'[u] = step[u]
BY DEF TypeOK

\* A new secret disturbs nobody: its name was free.
LEMMA CreateSecretCore ==
  ASSUME TypeOK, Core, NEW t \in Tasks, CreateSecret(t)
  PROVE  Core'
<1>1. /\ name' = name /\ pending' = pending /\ clicks' = clicks
      /\ repo' = repo /\ app' = app
  BY DEF CreateSecret, OnlyTask, cardVars
<1>2. step[t] = "secret" /\ \E s \in {"entity", "failed"} : step' = [step EXCEPT ![t] = s]
  BY DEF CreateSecret, Goes, Goto, Fail
<1>3. PICK s \in {"entity", "failed"} : step' = [step EXCEPT ![t] = s]
  BY <1>2
<1>4. step'[t] = s /\ \A u \in Tasks \ {t} : step'[u] = step[u]
  BY <1>3, MovesOne
<1>5. \/ /\ secret[name[t]] = None
         /\ secret' = [secret EXCEPT ![name[t]] = t]
         /\ token' = [token EXCEPT ![name[t]] = None]
      \/ s = "failed" /\ secret' = secret /\ token' = token
  <2>1. CASE secret[name[t]] = None
    BY <2>1 DEF CreateSecret
  <2>2. CASE secret[name[t]] # None
    <3>1. step' = [step EXCEPT ![t] = "failed"] /\ secret' = secret /\ token' = token
      BY <2>2 DEF CreateSecret, Fail
    <3>2. step'[t] = "failed"
      BY <3>1, MovesOne
    <3> QED
      BY <3>1, <3>2, <1>4
  <2> QED
    BY <2>1, <2>2
<1>6. OwnNames' /\ \A q \in pending' : Asked(q)' /\ Aimed(q)'
  BY <1>1 DEF Core, OwnNames, Asked, Aimed, Calm
<1>7. secret \in [Names -> Tasks \cup {None}] /\ token \in [Names -> Tasks \cup {None}]
      /\ name \in [Tasks -> Names]
  BY DEF TypeOK
<1>8. ASSUME NEW u \in Tasks PROVE TaskInv(u)'
  <2>0. TaskInv(u) /\ TaskInv(t)
    BY DEF Core
  <2>1. Stands(u)' <=> Stands(u)
    BY <1>1 DEF Stands
  <2>2. ~Stands(t)
    BY <2>0, <1>2 DEF TaskInv, OnceEnded, Stands, Ended
  <2>3. OnceEnded(u)' /\ OwnRepo(u)'
    BY <1>1, <1>2, <1>4, <2>0, <2>1 DEF TaskInv, OnceEnded, OwnRepo, Calm, Published, Ended
  <2>4. CASE u = t
    <3>1. OwnSecret(u)' /\ OwnToken(u)'
      BY <2>4, <2>1, <2>2, <1>1, <1>4, <1>5, <1>7 DEF OwnSecret, OwnToken, Late
    <3> QED
      BY <3>1, <2>3 DEF TaskInv
  <2>5. CASE u # t /\ name[u] = name[t] /\ secret[name[t]] = None
    <3>1. step[u] \notin Late /\ ~Stands(u)
      BY <2>5, FreeName
    <3>2. OwnSecret(u)' /\ OwnToken(u)'
      BY <3>1, <2>5, <2>1, <1>4 DEF OwnSecret, OwnToken, Late
    <3> QED
      BY <3>2, <2>3 DEF TaskInv
  <2>6. CASE u # t /\ (name[u] # name[t] \/ secret[name[t]] # None)
    <3>1. secret'[name[u]] = secret[name[u]] /\ token'[name[u]] = token[name[u]]
      BY <2>6, <1>5, <1>7
    <3>2. OwnSecret(u)' /\ OwnToken(u)'
      BY <3>1, <2>6, <2>1, <2>0, <1>1, <1>4 DEF TaskInv, OwnSecret, OwnToken
    <3> QED
      BY <3>2, <2>3 DEF TaskInv
  <2> QED
    BY <2>4, <2>5, <2>6
<1> QED
  BY <1>6, <1>8 DEF Core

\* A new repository disturbs nobody, and no deletion is under way that is meant for another.
LEMMA PublishCore ==
  ASSUME TypeOK, Core, NEW t \in Tasks, Publish(t)
  PROVE  Core'
<1>1. /\ name' = name /\ pending' = pending /\ clicks' = clicks
      /\ secret' = secret /\ token' = token /\ app' = app
  BY DEF Publish, OnlyTask, cardVars
<1>2. step[t] = "publish" /\ \E s \in {"repoToken", "failed"} : step' = [step EXCEPT ![t] = s]
  BY DEF Publish, Goes, Goto, Fail
<1>3. PICK s \in {"repoToken", "failed"} : step' = [step EXCEPT ![t] = s]
  BY <1>2
<1>4. step'[t] = s /\ \A u \in Tasks \ {t} : step'[u] = step[u]
  BY <1>3, MovesOne
<1>5. \/ /\ repo[name[t]] = None
         /\ repo' = [repo EXCEPT ![name[t]] = t]
      \/ s = "failed" /\ repo' = repo
  <2>1. CASE repo[name[t]] = None
    BY <2>1 DEF Publish
  <2>2. CASE repo[name[t]] # None
    <3>1. step' = [step EXCEPT ![t] = "failed"] /\ repo' = repo
      BY <2>2 DEF Publish, Fail
    <3>2. step'[t] = "failed"
      BY <3>1, MovesOne
    <3> QED
      BY <3>1, <3>2, <1>4
  <2> QED
    BY <2>1, <2>2
<1>6. /\ repo \in [Names -> Tasks \cup {None}] /\ name \in [Tasks -> Names]
      /\ pending \subseteq Requests
  BY DEF TypeOK
<1>7. \A n \in Names : Calm(n)' <=> Calm(n)
  BY <1>1 DEF Calm
<1>8. \A n \in Names : repo[n] # None => repo'[n] = repo[n]
  BY <1>5, <1>6
<1>9. ASSUME NEW q \in pending PROVE Asked(q)' /\ Aimed(q)'
  <2>1. Asked(q) /\ Aimed(q) /\ q.of \in Tasks /\ name[q.of] \in Names
    BY <1>6 DEF Core, Requests
  <2> QED
    BY <2>1, <1>1, <1>7, <1>8, SomeTask DEF Asked, Aimed
<1>10. OwnNames'
  BY <1>1 DEF Core, OwnNames
<1>11. ASSUME NEW u \in Tasks PROVE TaskInv(u)'
  <2>0. TaskInv(u) /\ name[u] \in Names
    BY <1>6 DEF Core
  <2>1. Stands(u)' <=> Stands(u)
    BY <1>1 DEF Stands
  <2>2. OnceEnded(u)' /\ OwnSecret(u)' /\ OwnToken(u)'
    BY <1>1, <1>2, <1>4, <2>0, <2>1
       DEF TaskInv, OnceEnded, OwnSecret, OwnToken, Late, Ended
  <2>3. OwnRepo(u)'
    <3>1. CASE u = t /\ s = "repoToken"
      BY <3>1, <1>1, <1>5, <1>6 DEF OwnRepo
    <3>2. CASE u # t \/ s = "failed"
      <4>1. step'[u] \in Published => step[u] \in Published
        BY <3>2, <1>2, <1>4 DEF Published
      <4>2. (Calm(name[u])' /\ (step'[u] \in Published \/ Stands(u)')) => repo[name[u]] = u
        BY <4>1, <2>0, <2>1, <1>1, <1>7 DEF TaskInv, OwnRepo
      <4> QED
        BY <4>2, <2>0, <1>1, <1>8, SomeTask DEF OwnRepo
    <3> QED
      BY <3>1, <3>2
  <2> QED
    BY <2>2, <2>3 DEF TaskInv
<1> QED
  BY <1>1, <1>9, <1>10, <1>11 DEF Core

\* The token goes to the task's own secret: nobody else counts on a token of that name.
LEMMA PutSecretCore ==
  ASSUME TypeOK, Core, NEW t \in Tasks, PutSecret(t)
  PROVE  Core'
<1>1. /\ name' = name /\ pending' = pending /\ clicks' = clicks
      /\ secret' = secret /\ repo' = repo /\ app' = app
  BY DEF PutSecret, OnlyTask, cardVars
<1>2. step[t] = "putSecret" /\ \E s \in {"register", "failed"} : step' = [step EXCEPT ![t] = s]
  BY DEF PutSecret, Goes, Goto, Fail
<1>3. PICK s \in {"register", "failed"} : step' = [step EXCEPT ![t] = s]
  BY <1>2
<1>4. step'[t] = s /\ \A u \in Tasks \ {t} : step'[u] = step[u]
  BY <1>3, MovesOne
<1>5. /\ name \in [Tasks -> Names] /\ token \in [Names -> Tasks \cup {None}]
      /\ secret[name[t]] = t
  BY <1>2 DEF TypeOK, Core, TaskInv, OwnSecret, Late
<1>6. token' = [token EXCEPT ![name[t]] = t]
  BY <1>5 DEF PutSecret
<1>7. OwnNames' /\ \A q \in pending' : Asked(q)' /\ Aimed(q)'
  BY <1>1 DEF Core, OwnNames, Asked, Aimed, Calm
<1>8. ASSUME NEW u \in Tasks PROVE TaskInv(u)'
  <2>0. TaskInv(u)
    BY DEF Core
  <2>1. Stands(u)' <=> Stands(u)
    BY <1>1 DEF Stands
  <2>2. OnceEnded(u)' /\ OwnSecret(u)' /\ OwnRepo(u)'
    BY <1>1, <1>2, <1>4, <2>0, <2>1
       DEF TaskInv, OnceEnded, OwnSecret, OwnRepo, Calm, Late, Published, Ended
  <2>3. OwnToken(u)'
    <3>1. CASE u = t
      BY <3>1, <1>1, <1>5, <1>6 DEF OwnToken
    <3>2. CASE u # t /\ name[u] = name[t]
      <4>1. ~(step[u] \in Late \/ Stands(u))
        BY <3>2, <2>0, <1>5 DEF TaskInv, OwnSecret
      <4> QED
        BY <4>1, <3>2, <2>1, <1>4 DEF OwnToken, Late
    <3>3. CASE u # t /\ name[u] # name[t]
      <4>1. token'[name[u]] = token[name[u]]
        BY <3>3, <1>5, <1>6
      <4> QED
        BY <4>1, <3>3, <2>0, <2>1, <1>1, <1>4 DEF TaskInv, OwnToken
    <3> QED
      BY <3>1, <3>2, <3>3
  <2> QED
    BY <2>2, <2>3 DEF TaskInv
<1> QED
  BY <1>7, <1>8 DEF Core

\* What is registered has all the task made.
LEMMA RegisterCore ==
  ASSUME TypeOK, Core, NEW t \in Tasks, Register(t)
  PROVE  Core'
<1>1. /\ name' = name /\ pending' = pending /\ clicks' = clicks
      /\ secret' = secret /\ token' = token /\ repo' = repo
  BY DEF Register, OnlyTask, cardVars
<1>2. step[t] = "register" /\ \E s \in {"done", "failed"} : step' = [step EXCEPT ![t] = s]
  BY DEF Register, Goes, Goto, Fail
<1>3. PICK s \in {"done", "failed"} : step' = [step EXCEPT ![t] = s]
  BY <1>2
<1>4. step'[t] = s /\ \A u \in Tasks \ {t} : step'[u] = step[u]
  BY <1>3, MovesOne
<1>5. \/ app[name[t]] = None /\ app' = [app EXCEPT ![name[t]] = t]
      \/ app' = app
  BY DEF Register
<1>6. name \in [Tasks -> Names] /\ app \in [Names -> Tasks \cup {None}]
  BY DEF TypeOK
<1>7. \A q \in pending' : Asked(q)' /\ Aimed(q)'
  BY <1>1 DEF Core, Asked, Aimed, Calm
<1>8. OwnNames'
  BY <1>1, <1>5, <1>6 DEF Core, OwnNames
<1>9. ASSUME NEW u \in Tasks PROVE TaskInv(u)'
  <2>0. TaskInv(u)
    BY DEF Core
  <2>1. CASE u = t
    <3>1. secret[name[t]] = t /\ token[name[t]] = t /\ (Calm(name[t]) => repo[name[t]] = t)
      BY <2>0, <2>1, <1>2 DEF TaskInv, OwnSecret, OwnToken, OwnRepo, Late, Published
    <3> QED
      BY <3>1, <2>1, <1>1, <1>4
         DEF TaskInv, OnceEnded, OwnSecret, OwnToken, OwnRepo, Calm, Ended
  <2>2. CASE u # t
    <3>1. app'[name[u]] = u => app[name[u]] = u
      BY <2>2, <1>5, <1>6
    <3>2. step'[u] = step[u] /\ (Stands(u)' => Stands(u))
      BY <3>1, <2>2, <1>1, <1>4 DEF Stands
    <3> QED
      BY <3>1, <3>2, <2>0, <1>1
         DEF TaskInv, OnceEnded, OwnSecret, OwnToken, OwnRepo, Calm
  <2> QED
    BY <2>1, <2>2
<1> QED
  BY <1>7, <1>8, <1>9 DEF Core

\* What is asked to be deleted no longer stands; the request is aimed at its own repository.
LEMMA ClickCore ==
  ASSUME TypeOK, Core, NEW t \in Tasks, ClickDeleteAll(t)
  PROVE  Core'
<1>1. /\ name' = name /\ step' = step
      /\ secret' = secret /\ token' = token /\ repo' = repo /\ app' = app
      /\ app[name[t]] = t \/ clicks[t] > 0
      /\ pending' = pending \cup {Request(t, what) : what \in {"repository", "secret", "entity"}}
      /\ clicks' = [clicks EXCEPT ![t] = @ + 1]
  BY DEF ClickDeleteAll, taskVars, madeVars
<1>2. /\ clicks \in [Tasks -> 0..MaxClicks] /\ name \in [Tasks -> Names]
      /\ pending \subseteq Requests
  BY DEF TypeOK
<1>3. \A u \in Tasks : clicks[u] \in Nat /\ clicks'[u] >= clicks[u]
  BY <1>1, <1>2, ClicksAssumption
<1>4. clicks'[t] = clicks[t] + 1 /\ clicks[t] \in Nat
  BY <1>1, <1>2, ClicksAssumption
<1>5. ASSUME NEW n \in Names, Calm(n)' PROVE Calm(n)
  <2> SUFFICES ASSUME NEW u \in Tasks, name[u] = n PROVE clicks[u] <= 1
    BY DEF Calm
  <2>1. clicks'[u] <= 1
    BY <1>1, <1>5 DEF Calm
  <2>2. clicks'[u] \in Nat
    BY <1>1, <1>2, ClicksAssumption
  <2> QED
    BY <2>1, <2>2, <1>3
<1>6. ASSUME NEW u \in Tasks PROVE TaskInv(u)'
  <2>0. TaskInv(u) /\ TaskInv(t) /\ name[u] \in Names
    BY <1>2 DEF Core
  <2>1. Stands(u)' => Stands(u)
    <3>1. clicks'[u] = 0 => clicks[u] = 0
      BY <1>1, <1>2, <1>4, ClicksAssumption
    <3> QED
      BY <3>1, <1>1 DEF Stands
  <2>2. OnceEnded(u)'
    <3>1. CASE u = t
      BY <3>1, <2>0, <1>1 DEF TaskInv, OnceEnded
    <3>2. CASE u # t
      <4>1. clicks'[u] = clicks[u]
        BY <3>2, <1>1, <1>2
      <4> QED
        BY <4>1, <2>0, <1>1 DEF TaskInv, OnceEnded
    <3> QED
      BY <3>1, <3>2
  <2>3. OwnSecret(u)' /\ OwnToken(u)'
    BY <2>0, <2>1, <1>1 DEF TaskInv, OwnSecret, OwnToken
  <2>4. OwnRepo(u)'
    <3>1. Calm(name[u])' => Calm(name[u])
      BY <2>0, <1>1, <1>5
    <3> QED
      BY <3>1, <2>0, <2>1, <1>1 DEF TaskInv, OwnRepo
  <2> QED
    BY <2>2, <2>3, <2>4 DEF TaskInv
<1>7. ASSUME NEW q \in pending PROVE Asked(q)' /\ Aimed(q)'
  <2>0. Asked(q) /\ Aimed(q) /\ q.of \in Tasks /\ q.nth \in 0..MaxClicks /\ name[q.of] \in Names
    BY <1>2 DEF Core, Requests
  <2>1. clicks'[q.of] \in Nat /\ clicks[q.of] \in Nat /\ clicks'[q.of] >= clicks[q.of]
        /\ q.nth \in Nat
    BY <2>0, <1>1, <1>2, ClicksAssumption
  <2>2. Asked(q)'
    BY <2>0, <2>1 DEF Asked
  <2>3. Calm(name[q.of])' => Calm(name[q.of])
    BY <2>0, <1>1, <1>5
  <2> QED
    BY <2>0, <2>2, <2>3, <1>1 DEF Aimed
<1>8. ASSUME Calm(name[t])' PROVE repo'[name'[t]] = t
  <2>1. Calm(name[t]) /\ name[t] \in Names
    BY <1>8, <1>1, <1>2, <1>5
  <2>2. clicks'[t] <= 1
    BY <1>8, <1>1 DEF Calm
  <2>3. clicks[t] = 0
    BY <2>2, <1>4
  <2>4. Stands(t) /\ OwnRepo(t)
    BY <2>3, <1>1 DEF Stands, Core, TaskInv
  <2> QED
    BY <2>1, <2>4, <1>1 DEF OwnRepo
<1>9. ASSUME NEW q \in pending' \ pending PROVE Asked(q)' /\ Aimed(q)'
  <2>1. q.of = t /\ q.nth = clicks[t]
    BY <1>1 DEF Request
  <2>2. Asked(q)'
    BY <2>1, <1>4 DEF Asked
  <2>3. Aimed(q)'
    BY <2>1, <1>8 DEF Aimed
  <2> QED
    BY <2>2, <2>3
<1>10. OwnNames'
  BY <1>1 DEF Core, OwnNames
<1> QED
  BY <1>6, <1>7, <1>9, <1>10 DEF Core

\* A task one of whose requests is under way has ended, and what it made does not stand.
LEMMA RequestedEnded ==
  ASSUME TypeOK, Core, NEW q \in pending
  PROVE  /\ q.of \in Tasks /\ clicks[q.of] > 0
         /\ step[q.of] \in Ended /\ ~Stands(q.of)
<1>1. q.of \in Tasks /\ q.nth \in Nat
  BY ClicksAssumption DEF TypeOK, Requests
<1>2. q.nth < clicks[q.of] /\ clicks[q.of] \in 0..MaxClicks
  BY <1>1 DEF Core, Asked, TypeOK
<1>3. clicks[q.of] > 0 /\ clicks[q.of] # 0
  BY <1>1, <1>2, ClicksAssumption
<1>4. OnceEnded(q.of)
  BY <1>1 DEF Core, TaskInv
<1> QED
  BY <1>1, <1>3, <1>4 DEF OnceEnded, Stands

\* While a name is calm, two requests for its repository are one.
LEMMA OneRequest ==
  ASSUME TypeOK, Core, NEW q \in pending, NEW r \in pending, Calm(name[q.of]),
         name[r.of] = name[q.of], q.what = "repository", r.what = "repository"
  PROVE  r = q
<1>1. /\ q \in Requests /\ r \in Requests
      /\ q.of \in Tasks /\ r.of \in Tasks /\ q.nth \in Nat /\ r.nth \in Nat
  BY ClicksAssumption DEF TypeOK, Requests
<1>2. repo[name[q.of]] = q.of /\ repo[name[q.of]] = r.of
  BY DEF Core, Aimed
<1>3. clicks[q.of] <= 1 /\ clicks[q.of] \in Nat
  <2>1. clicks[q.of] <= 1
    BY <1>1 DEF Calm
  <2>2. clicks[q.of] \in 0..MaxClicks
    BY <1>1 DEF TypeOK
  <2> QED
    BY <2>1, <2>2, ClicksAssumption
<1>4. q.nth < clicks[q.of] /\ r.nth < clicks[q.of]
  BY <1>2 DEF Core, Asked
<1>5. q.nth = 0 /\ r.nth = 0
  BY <1>1, <1>3, <1>4
<1>6. ASSUME NEW x \in Requests
      PROVE  x = [what |-> x.what, of |-> x.of, nth |-> x.nth]
  BY DEF Requests
<1>7. /\ q = [what |-> q.what, of |-> q.of, nth |-> q.nth]
      /\ r = [what |-> r.what, of |-> r.of, nth |-> r.nth]
  BY <1>1, <1>6
<1>8. q.what = r.what /\ q.of = r.of /\ q.nth = r.nth
  BY <1>2, <1>5
<1> QED
  BY <1>7, <1>8

\* A deletion takes nothing of a task under way, and nothing of what stands.
LEMMA DeleteCore ==
  ASSUME TypeOK, Core, NEW q \in Requests, DeleteNext(q)
  PROVE  Core'
<1>1. /\ name' = name /\ step' = step /\ clicks' = clicks
      /\ q \in pending /\ pending' = pending \ {q}
  BY DEF DeleteNext, DeleteRepository, DeleteSecret, RemoveEntity, DeletionFails, OnlyDeletes,
         taskVars
<1>2. /\ q.of \in Tasks /\ clicks[q.of] > 0
      /\ step[q.of] \in Ended /\ ~Stands(q.of)
  BY <1>1, RequestedEnded
<1>3. /\ name \in [Tasks -> Names] /\ pending \subseteq Requests
      /\ secret \in [Names -> Tasks \cup {None}] /\ token \in [Names -> Tasks \cup {None}]
      /\ repo \in [Names -> Tasks \cup {None}] /\ app \in [Names -> Tasks \cup {None}]
  BY DEF TypeOK
<1>4. \A r \in pending' : Asked(r)'
  BY <1>1 DEF Core, Asked
<1>5. step[q.of] \notin Late /\ step[q.of] \notin Published
  BY <1>2 DEF Ended, Late, Published
<1>6. CASE DeleteRepository(q)
  <2>1. /\ q.what = "repository" /\ repo' = [repo EXCEPT ![name[q.of]] = None]
        /\ secret' = secret /\ token' = token /\ app' = app
    BY <1>6 DEF DeleteRepository
  <2>2. OwnNames'
    BY <1>1, <2>1 DEF Core, OwnNames
  <2>3. ASSUME NEW r \in pending' PROVE Aimed(r)'
    <3>1. r \in pending /\ r # q /\ Aimed(r) /\ r.of \in Tasks
      BY <1>1, <1>3 DEF Core, Requests
    <3>2. CASE name[r.of] = name[q.of]
      <4>1. ~(Calm(name[r.of]) /\ r.what = "repository")
        BY <3>1, <3>2, <1>1, <2>1, OneRequest
      <4> QED
        BY <4>1, <1>1 DEF Aimed, Calm
    <3>3. CASE name[r.of] # name[q.of]
      <4>1. repo'[name[r.of]] = repo[name[r.of]]
        BY <3>1, <3>3, <2>1, <1>3
      <4> QED
        BY <4>1, <3>1, <1>1 DEF Aimed, Calm
    <3> QED
      BY <3>2, <3>3
  <2>4. ASSUME NEW u \in Tasks PROVE TaskInv(u)'
    <3>0. TaskInv(u) /\ name[u] \in Names /\ (Stands(u)' <=> Stands(u))
      BY <1>1, <1>3, <2>1 DEF Core, Stands
    <3>1. OnceEnded(u)' /\ OwnSecret(u)' /\ OwnToken(u)'
      BY <3>0, <1>1, <2>1 DEF TaskInv, OnceEnded, OwnSecret, OwnToken
    <3>2. CASE name[u] = name[q.of]
      <4>1. Calm(name[q.of]) => repo[name[q.of]] = q.of
        BY <1>1, <2>1 DEF Core, Aimed
      <4>2. ~(Calm(name[u]) /\ (step[u] \in Published \/ Stands(u)))
        BY <4>1, <3>0, <3>2, <1>2, <1>5 DEF TaskInv, OwnRepo
      <4>3. OwnRepo(u)'
        BY <4>2, <3>0, <1>1 DEF OwnRepo, Calm
      <4> QED
        BY <3>1, <4>3 DEF TaskInv
    <3>3. CASE name[u] # name[q.of]
      <4>1. repo'[name[u]] = repo[name[u]]
        BY <3>0, <3>3, <2>1, <1>3
      <4>2. OwnRepo(u)'
        BY <4>1, <3>0, <1>1 DEF TaskInv, OwnRepo, Calm
      <4> QED
        BY <3>1, <4>2 DEF TaskInv
    <3> QED
      BY <3>2, <3>3
  <2> QED
    BY <1>4, <2>2, <2>3, <2>4 DEF Core
<1>7. CASE DeleteSecret(q)
  <2>1. /\ \/ /\ secret[name[q.of]] = q.of
              /\ secret' = [secret EXCEPT ![name[q.of]] = None]
              /\ token' = [token EXCEPT ![name[q.of]] = None]
           \/ secret' = secret /\ token' = token
        /\ repo' = repo /\ app' = app
    BY <1>7 DEF DeleteSecret
  <2>2. OwnNames' /\ \A r \in pending' : Aimed(r)'
    BY <1>1, <2>1 DEF Core, OwnNames, Aimed, Calm
  <2>3. ASSUME NEW u \in Tasks PROVE TaskInv(u)'
    <3>0. TaskInv(u) /\ name[u] \in Names /\ (Stands(u)' <=> Stands(u))
      BY <1>1, <1>3, <2>1 DEF Core, Stands
    <3>1. OnceEnded(u)' /\ OwnRepo(u)'
      BY <3>0, <1>1, <2>1 DEF TaskInv, OnceEnded, OwnRepo, Calm
    <3>2. CASE step[u] \in Late \/ Stands(u)
      <4>1. secret[name[u]] = u /\ u # q.of
        BY <3>0, <3>2, <1>2, <1>5 DEF TaskInv, OwnSecret
      <4>2. secret'[name[u]] = secret[name[u]] /\ token'[name[u]] = token[name[u]]
        BY <4>1, <3>0, <2>1, <1>3
      <4>3. OwnSecret(u)' /\ OwnToken(u)'
        BY <4>2, <3>0, <1>1 DEF TaskInv, OwnSecret, OwnToken
      <4> QED
        BY <3>1, <4>3 DEF TaskInv
    <3>3. CASE ~(step[u] \in Late \/ Stands(u))
      <4>1. OwnSecret(u)' /\ OwnToken(u)'
        BY <3>0, <3>3, <1>1 DEF OwnSecret, OwnToken, Late
      <4> QED
        BY <3>1, <4>1 DEF TaskInv
    <3> QED
      BY <3>2, <3>3
  <2> QED
    BY <1>4, <2>2, <2>3 DEF Core
<1>8. CASE RemoveEntity(q)
  <2>1. /\ app' = [app EXCEPT ![name[q.of]] = None] \/ app' = app
        /\ secret' = secret /\ token' = token /\ repo' = repo
    BY <1>8 DEF RemoveEntity
  <2>2. \A n \in Names : app'[n] = app[n] \/ app'[n] = None
    BY <2>1, <1>3
  <2>3. OwnNames' /\ \A r \in pending' : Aimed(r)'
    BY <1>1, <2>1, <2>2 DEF Core, OwnNames, Aimed, Calm
  <2>4. ASSUME NEW u \in Tasks PROVE TaskInv(u)'
    <3>0. TaskInv(u) /\ name[u] \in Names
      BY <1>3 DEF Core
    <3>1. app'[name[u]] = u => app[name[u]] = u
      BY <3>0, <2>2, SomeTask
    <3>2. Stands(u)' => Stands(u)
      BY <3>1, <1>1 DEF Stands
    <3> QED
      BY <3>0, <3>1, <3>2, <1>1, <2>1
         DEF TaskInv, OnceEnded, OwnSecret, OwnToken, OwnRepo, Calm
  <2> QED
    BY <1>4, <2>3, <2>4 DEF Core
<1>9. CASE DeletionFails(q)
  <2>1. secret' = secret /\ token' = token /\ repo' = repo /\ app' = app
    BY <1>9 DEF DeletionFails, madeVars
  <2> QED
    BY <1>1, <1>4, <2>1
       DEF Core, OwnNames, Aimed, Calm, TaskInv, OnceEnded, OwnSecret, OwnToken,
                            OwnRepo, Stands
<1> QED
  BY <1>6, <1>7, <1>8, <1>9 DEF DeleteNext

\* Every step keeps the invariant.
LEMMA NextCore == TypeOK /\ Core /\ [Next]_vars => Core'
<1> SUFFICES ASSUME TypeOK, Core, [Next]_vars PROVE Core'
  OBVIOUS
<1>1. CASE UNCHANGED vars
  BY <1>1, CoreFrame DEF vars, taskVars
<1>2. CASE EnvNext
  <2>1. UNCHANGED <<step, name>> /\ UNCHANGED madeVars /\ UNCHANGED cardVars
    BY <1>2, EnvNextFrame DEF OnlyEnvironments, taskVars
  <2> QED
    BY <2>1, CoreFrame
<1>3. ASSUME NEW t \in Tasks, ReadNext(t) PROVE Core'
  BY <1>3, ReadCore
<1>4. ASSUME NEW t \in Tasks, MakeNext(t) PROVE Core'
  BY <1>4, CreateSecretCore, PublishCore, PutSecretCore, RegisterCore DEF MakeNext
<1>5. ASSUME NEW t \in Tasks, ClickDeleteAll(t) PROVE Core'
  BY <1>5, ClickCore
<1>6. ASSUME NEW q \in Requests, DeleteNext(q) PROVE Core'
  BY <1>6, DeleteCore
<1> QED
  BY <1>1, <1>2, <1>3, <1>4, <1>5, <1>6, NextParts

\* What stands in the catalog, under a name that is calm, is whole.
LEMMA InvWhole == Inv => RegisteredIsWhole
<1> SUFFICES ASSUME Inv, NEW n \in Names, Calm(n), app[n] # None, clicks[app[n]] = 0
             PROVE  repo[n] = app[n] /\ secret[n] = app[n] /\ token[n] = app[n]
  BY Zenon DEF RegisteredIsWhole
<1>1. app[n] \in Tasks /\ name[app[n]] = n
  BY DEF Inv, TypeOK, Core, OwnNames
<1>2. Stands(app[n]) /\ TaskInv(app[n])
  BY <1>1 DEF Stands, Inv, Core
<1> QED
  BY <1>1, <1>2 DEF TaskInv, OwnSecret, OwnToken, OwnRepo

\* The invariant holds in every state that is reached.
LEMMA Invariant == Spec => []Inv
<1>1. Init => Inv
  BY InitTypeOK, InitCore DEF Inv
<1>2. Inv /\ [Next]_vars => Inv'
  BY NextTypeOK, NextCore DEF Inv
<1> QED
  BY <1>1, <1>2, PTL DEF Spec

\* An application whose deletion nobody asked for, in the catalog under a name of which no
\* application was asked to be deleted twice, has its own repository, secret and token:
\* for any number of tasks, names, and deletions that fail or come late.
THEOREM WholeApplications == Spec => []RegisteredIsWhole
<1>1. Spec => []Inv
  BY Invariant
<1>2. Inv => RegisteredIsWhole
  BY InvWhole
<1> QED
  BY <1>1, <1>2, PTL

-------------------------------------------------------------------------------
(* The kinds of provider.                                                      *)

\* A provider whose pipeline has recorded it is not refused before it is asked.
LEMMA KindConfigured ==
  ASSUME NEW k \in Kinds \ {"basic"}
  PROVE  ~Unconfigured(k, TRUE)
<1>1. /\ "vpc" \in JobWrites[k] /\ "provisioningRole" \in JobWrites[k]
  BY DEF Kinds, JobWrites
<1>2. /\ "VPC" \in StackOf[k].outputs /\ "ProvisioningRoleARN" \in StackOf[k].outputs
  BY DEF Kinds, StackOf, EcsStack, EcsEc2Stack, EksStack, ServerlessStack, GenAiStack, Stack,
         CommonOutputs, VpcOutput
<1>3. Value(Metadata(k, TRUE), "vpc") = "vpc"
  BY <1>1, <1>2 DEF Value, Metadata, Written, Variable, OutputOf
<1>4. Value(Metadata(k, TRUE), "provisioningRole") = "provisioningRole"
  BY <1>1, <1>2 DEF Value, Metadata, Written, Variable, OutputOf
<1> QED
  BY <1>3, <1>4 DEF Unconfigured, Empty

\* One that is not recorded is.
LEMMA KindUnconfigured ==
  ASSUME NEW k \in Kinds
  PROVE  Unconfigured(k, FALSE)
<1>1. Value(Metadata(k, FALSE), "provisioningRole") = Empty
  BY DEF Value, Metadata
<1> QED
  BY <1>1 DEF Unconfigured

\* One of the basic kind is, recorded or not.
LEMMA BasicUnconfigured == Unconfigured("basic", TRUE)
<1>1. "provisioningRole" \notin BlankKeys["basic"] /\ "provisioningRole" \notin JobWrites["basic"]
  BY DEF BlankKeys, JobWrites
<1>2. Value(Metadata("basic", TRUE), "provisioningRole") = Empty
  BY <1>1 DEF Value, Metadata
<1> QED
  BY <1>2 DEF Unconfigured

\* All the parameters it is asked for then are of its stack, and the role may read them.
LEMMA KindReadable ==
  ASSUME NEW k \in Kinds \ {"basic"}
  PROVE  ParametersRead(k, TRUE) \subseteq Readable(k)
<1>1. /\ "vpc" \in JobWrites[k] /\ "provisioningRole" \in JobWrites[k]
      /\ EnvType[k] \in {"ecs", "eks"} => "clusterName" \in JobWrites[k]
  BY DEF Kinds, JobWrites, EnvType
<1>2. /\ "VPC" \in StackOf[k].outputs /\ "ProvisioningRoleARN" \in StackOf[k].outputs
      /\ EnvType[k] \in {"ecs", "eks"} => "ClusterName" \in StackOf[k].outputs
  BY DEF Kinds, StackOf, EcsStack, EcsEc2Stack, EksStack, ServerlessStack, GenAiStack, Stack,
         CommonOutputs, VpcOutput, ClusterOutput, EnvType
<1>3. /\ Value(Metadata(k, TRUE), "vpc") = "vpc"
      /\ Value(Metadata(k, TRUE), "provisioningRole") = "provisioningRole"
      /\ EnvType[k] \in {"ecs", "eks"} => Value(Metadata(k, TRUE), "clusterName") = "cluster"
  BY <1>1, <1>2 DEF Value, Metadata, Written, Variable, OutputOf
<1>4. ParametersRead(k, TRUE)
        \subseteq {"provisioningRole", "vpc"} \cup SubnetParameters
                    \cup (IF EnvType[k] \in {"ecs", "eks"} THEN {"cluster"} ELSE {})
  BY <1>3 DEF ParametersRead, Empty
<1>5. {"provisioningRole", "vpc"} \cup SubnetParameters \subseteq StackOf[k].parameters
  BY DEF Kinds, StackOf, EcsStack, EcsEc2Stack, EksStack, ServerlessStack, GenAiStack, Stack,
         RoleParameters, Network
<1>6. EnvType[k] \in {"ecs", "eks"} => "cluster" \in StackOf[k].parameters
  BY DEF Kinds, StackOf, EcsStack, EcsEc2Stack, EksStack, ServerlessStack, GenAiStack, Stack,
         EcsCluster, EksCluster, EnvType
<1>7. "ssm:GetParameter" \in StackOf[k].operations
  BY DEF Kinds, StackOf, EcsStack, EcsEc2Stack, EksStack, ServerlessStack, GenAiStack, Stack,
         EcsOperations, EcsEc2Operations, EksOperations, ServerlessOperations,
         GenAiOperations, SSMReadOnlyAccess, SSMFullAccess
<1> QED
  BY <1>4, <1>5, <1>6, <1>7 DEF Readable

\* The operations role allows what the pages of its type call.
LEMMA KindPage ==
  ASSUME NEW k \in Kinds \ {"basic"}
  PROVE  PageCalls[EnvType[k]] \subseteq StackOf[k].operations
<1> USE DEF Tabs, Audited, AuditTab, LogsTab, ManagementTab, InfrastructureCard,
            CommonStatements, CloudWatchFullAccess, SSMReadOnlyAccess, SSMFullAccess,
            CloudFormationFullAccess
<1>1. PageCalls["ecs"] \subseteq EcsOperations
  BY DEF PageCalls, EcsPage, EcsOperations
<1>2. PageCalls["ecs"] \subseteq EcsEc2Operations
  BY DEF PageCalls, EcsPage, EcsEc2Operations
<1>3. PageCalls["eks"] \subseteq EksOperations
  BY DEF PageCalls, EksPage, EksOperations
<1>4. PageCalls["serverless"] \subseteq ServerlessOperations
  BY DEF PageCalls, ServerlessPage, ServerlessOperations, IAMFullAccess, LambdaFullAccess,
         APIGatewayAdministrator, S3ReadOnlyAccess
<1>5. PageCalls["gen-ai-serverless"] \subseteq GenAiOperations
  BY DEF PageCalls, ServerlessPage, GenAiOperations, IAMFullAccess, LambdaFullAccess,
         APIGatewayAdministrator, S3FullAccess, S3ReadOnlyAccess
<1> QED
  BY <1>1, <1>2, <1>3, <1>4, <1>5
     DEF Kinds, EnvType, StackOf, EcsStack, EcsEc2Stack, EksStack, ServerlessStack,
         GenAiStack, Stack

\* The provisioning role allows what the jobs of its type call.
LEMMA KindJobs ==
  ASSUME NEW k \in Kinds \ {"basic"}
  PROVE  JobCalls[EnvType[k]] \subseteq StackOf[k].provisioning
<1>1. \A ty \in DOMAIN PageCalls : JobCalls[ty] \subseteq Calls
  BY DEF Calls
<1>2. \A ty \in DOMAIN PageCalls : JobCalls[ty] \cap IAMFullAccess \subseteq IAMFullAccess
  OBVIOUS
<1>3. \A ty \in DOMAIN PageCalls : JobCalls[ty] \subseteq PowerUserAccess \cup Deploying
  BY <1>1 DEF PowerUserAccess, Deploying
<1>4. EnvType[k] \in DOMAIN PageCalls
  BY DEF PageCalls, EnvType, Kinds
<1>5. JobCalls["eks"] \subseteq EksProvisioning
  BY DEF JobCalls, PageCalls, CdkDeploy, PushImage, EksJobs, EksProvisioning, Deploying,
         ContainerRegistryFullAccess, SSMReadOnlyAccess, CloudFormationFullAccess,
         IAMFullAccess, S3FullAccess
<1> QED
  BY <1>3, <1>4, <1>5
     DEF Kinds, EnvType, StackOf, EcsStack, EcsEc2Stack, EksStack, ServerlessStack,
         GenAiStack, Stack, EcsProvisioning, EcsEc2Provisioning, ServerlessProvisioning,
         GenAiProvisioning

\* All that is asked of a provider that is not of the basic kind, it serves.
LEMMA KindServes ==
  ASSUME NEW k \in Kinds \ {"basic"}
  PROVE  Serves(k) /\ "sts:AssumeRole" \in Platform[StackOf[k].operationsBy]
<1>1. /\ StackOf[k].operationsBy = "/opa/platform-role"
      /\ StackOf[k].provisioningBy = "/opa/pipeline-role"
  BY DEF Kinds, StackOf, EcsStack, EcsEc2Stack, EksStack, ServerlessStack, GenAiStack, Stack,
         PlatformVariables
<1>2. Platform["/opa/platform-role"] = PlatformRole /\ Platform["/opa/pipeline-role"] = PipelineRole
  BY DEF Platform
<1>3. PlatformCalls \subseteq PlatformRole /\ PipelineCalls \subseteq PipelineRole
  BY DEF PlatformCalls, PlatformRole, PlatformSecrets, RoleAssumption, SSMReadOnlyAccess,
         PipelineCalls, PipelineRole
<1>4. "sts:AssumeRole" \in PlatformRole
  BY DEF PlatformRole, RoleAssumption
<1>5. ASSUME EnvType[k] = "eks"
      PROVE  /\ KubectlCalls \subseteq StackOf[k].kubectl
             /\ Empty \notin {Value(Metadata(k, TRUE), key) :
                                key \in {"kubectlLambdaArn", "clusterAdminRole"}}
  <2>1. k \in {"eks", "eksExisting"}
    BY <1>5 DEF Kinds, EnvType
  <2>2. StackOf[k].kubectl = KubectlLambdaRole
    BY <2>1 DEF StackOf, EksStack, Stack, EksCluster
  <2>3. {"kubectlLambdaArn", "clusterAdminRole"} \subseteq JobWrites[k]
    BY <2>1 DEF JobWrites
  <2>4. {"KUBECTL_LAMBDA_ARN", "ClusterAdminRoleDirectARN"} \subseteq StackOf[k].outputs
    BY <2>1 DEF StackOf, EksStack, Stack, KubectlOutputs
  <2>5. /\ Value(Metadata(k, TRUE), "kubectlLambdaArn") = "kubectlLambda"
        /\ Value(Metadata(k, TRUE), "clusterAdminRole") = "clusterAdminRole"
    BY <2>3, <2>4 DEF Value, Metadata, Written, Variable, OutputOf
  <2> QED
    BY <2>2, <2>5 DEF KubectlCalls, KubectlLambdaRole, Empty
<1> QED
  BY <1>1, <1>2, <1>3, <1>4, <1>5, KindPage, KindJobs DEF Serves

-------------------------------------------------------------------------------
(* The inductive invariant of the providers a task asks.                       *)

Before == {"idle", "environment", "providers"}
Refusals == {"unrecorded", "role", "parameter"}

\* A provider found recorded, of a kind that can be.
Sound(t, p) == p \in ready[t] /\ kind[p] # "basic"

AskWhy(t) == why[t] # "" => step[t] = "failed"
AskFirst(t) == step[t] \in Before => files[t] = {} /\ at[t] = None
AskNow(t) ==
  step[t] = "provider" =>
    /\ files[t] \cup left[t] = found[t]
    /\ \A p \in files[t] : Sound(t, p)
    /\ at[t] # None => at[t] \in left[t] /\ Sound(t, at[t])
AskDone(t) ==
  step[t] \notin Before \cup {"provider", "failed"} =>
    files[t] = found[t] /\ \A p \in files[t] : Sound(t, p)
AskRefused(t) ==
  why[t] \in Refusals => at[t] \notin ready[t] \/ stack[at[t]] = "gone" \/ kind[at[t]] = "basic"

Ask(t) == AskWhy(t) /\ AskFirst(t) /\ AskNow(t) /\ AskDone(t) /\ AskRefused(t)

\* What a task saw recorded was deployed, and may be gone since.
Deployed == \A p \in recorded : stack[p] # "none"
Seen(t) == ready[t] \subseteq recorded

Asks == Deployed /\ \A t \in Tasks : Ask(t) /\ Seen(t)

\* Initially nothing was asked, and what is recorded is up.
LEMMA InitAsks == Init => Asks
<1> SUFFICES ASSUME Init PROVE Asks
  OBVIOUS
<1>1. Deployed
  <2>1. setting \in Settings /\ setting.settled \subseteq Providers
    BY SettingsAssumption DEF Init
  <2> QED
    BY <2>1 DEF Init, Deployed
<1>2. ASSUME NEW t \in Tasks PROVE Ask(t) /\ Seen(t)
  <2>1. /\ step[t] = "idle" /\ why[t] = "" /\ files[t] = {} /\ at[t] = None /\ ready[t] = {}
    BY DEF Init
  <2> QED
    BY <2>1 DEF Ask, AskWhy, AskFirst, AskNow, AskDone, AskRefused, Before, Refusals, Seen
<1> QED
  BY <1>1, <1>2 DEF Asks

\* What changes neither the tasks nor the providers keeps the invariant.
LEMMA AsksFrame ==
  ASSUME Asks, UNCHANGED <<setting, stack, recorded, step, why>>, UNCHANGED readVars
  PROVE  Asks'
BY DEF Asks, Deployed, Seen, Ask, AskWhy, AskFirst, AskNow, AskDone, AskRefused, Sound, kind,
       readVars

\* A provider that was deployed is not forgotten, and one that is gone stays gone.
LEMMA EnvAsks ==
  ASSUME TypeOK, Asks, EnvNext
  PROVE  Asks'
<1>1. /\ setting' = setting /\ step' = step /\ why' = why
      /\ refs' = refs /\ found' = found /\ ready' = ready /\ left' = left /\ at' = at
      /\ files' = files
  BY EnvNextFrame DEF OnlyEnvironments, taskVars, readVars
<1>2. /\ recorded \subseteq recorded'
      /\ \A p \in recorded' \ recorded : stack'[p] # "none"
      /\ \A p \in Providers : stack[p] # "none" => stack'[p] # "none"
      /\ \A p \in Providers : stack[p] = "gone" => stack'[p] = "gone"
  <2>0. stack \in [Providers -> {"none", "up", "gone"}]
    BY DEF TypeOK
  <2>1. CASE stack' = stack /\ recorded' = recorded
    BY <2>1
  <2>2. ASSUME NEW p \in Providers, Deploy(p) \/ DestroyStack(p)
        PROVE  recorded' = recorded /\ stack[p] # "gone"
               /\ \E x \in {"up", "gone"} : stack' = [stack EXCEPT ![p] = x]
    BY <2>2 DEF Deploy, DestroyStack
  <2>3. CASE \E p \in Providers : Deploy(p) \/ DestroyStack(p)
    BY <2>3, <2>2, <2>0
  <2>4. ASSUME NEW p \in Providers, Record(p)
        PROVE  stack' = stack /\ recorded' = recorded \cup {p} /\ stack[p] = "up"
    BY <2>4 DEF Record
  <2>5. CASE \E p \in Providers : Record(p)
    BY <2>5, <2>4
  <2> QED
    BY <2>1, <2>3, <2>5
       DEF EnvNext, CreateProvider, Unlist, PostProcessEntity, DeleteEnvironment, Attach, Detach
<1>3. recorded \subseteq Providers /\ \A t \in Tasks : ready[t] \subseteq Providers
  BY DEF TypeOK
<1>4. Deployed'
  BY <1>2, <1>3 DEF Asks, Deployed
<1>5. ASSUME NEW t \in Tasks PROVE Ask(t)' /\ Seen(t)'
  <2>1. Ask(t) /\ Seen(t)
    BY DEF Asks
  <2>2. AskWhy(t)' /\ AskFirst(t)' /\ AskNow(t)' /\ AskDone(t)' /\ Seen(t)'
    BY <2>1, <1>1, <1>2 DEF Ask, AskWhy, AskFirst, AskNow, AskDone, Sound, kind, Seen
  <2>3. AskRefused(t)'
    BY <2>1, <1>1, <1>2, <1>3 DEF Ask, AskRefused, kind
  <2> QED
    BY <2>2, <2>3 DEF Ask
<1> QED
  BY <1>4, <1>5 DEF Asks

\* The steps after the providers: what was asked is settled.
LEMMA LaterAsks ==
  ASSUME TypeOK, Asks, NEW t \in Tasks, step[t] \notin Before \cup {"provider", "failed"},
         UNCHANGED <<setting, stack, recorded>>, UNCHANGED readVars,
         \/ \E s \in Steps \ (Before \cup {"provider", "failed"}) : Goto(t, s)
         \/ \E w \in Reasons \ Refusals : Fail(t, w)
  PROVE  Asks'
<1>1. /\ setting' = setting /\ stack' = stack /\ recorded' = recorded
      /\ refs' = refs /\ found' = found /\ ready' = ready /\ left' = left /\ at' = at
      /\ files' = files
  BY DEF readVars
<1>2. step \in [Tasks -> Steps] /\ why \in [Tasks -> Reasons]
  BY DEF TypeOK
<1>3. \A u \in Tasks \ {t} : step'[u] = step[u] /\ why'[u] = why[u]
  BY <1>2 DEF Goto, Fail
<1>4. \/ step'[t] \notin Before \cup {"provider", "failed"} /\ why'[t] = why[t]
      \/ step'[t] = "failed" /\ why'[t] \notin Refusals
  BY <1>2 DEF Goto, Fail
<1>5. ASSUME NEW u \in Tasks PROVE Ask(u)'
  <2>1. Ask(u)
    BY DEF Asks
  <2>2. CASE u = t
    BY <2>1, <2>2, <1>1, <1>4
       DEF Ask, AskWhy, AskFirst, AskNow, AskDone, AskRefused, Sound, kind, Before
  <2>3. CASE u # t
    BY <2>1, <2>3, <1>1, <1>3
       DEF Ask, AskWhy, AskFirst, AskNow, AskDone, AskRefused, Sound, kind
  <2> QED
    BY <2>2, <2>3
<1> QED
  BY <1>1, <1>5 DEF Asks, Deployed, Seen

\* Those are the steps that create something, and two that read.
LEMMA MakeAsks ==
  ASSUME TypeOK, Asks, NEW t \in Tasks, MakeNext(t) \/ FetchEntity(t) \/ CreateRepoToken(t)
  PROVE  Asks'
<1> USE DEF Before, Refusals, Steps, Reasons
<1>0. UNCHANGED <<setting, stack, recorded>> /\ UNCHANGED readVars
  BY DEF MakeNext, CreateSecret, Publish, PutSecret, Register, FetchEntity, CreateRepoToken,
         OnlyTask, envVars
<1>1. CASE CreateSecret(t)
  <2>1. step[t] = "secret" /\ (Goto(t, "entity") \/ Fail(t, "fault") \/ Fail(t, "secret"))
    BY <1>1 DEF CreateSecret, Goes
  <2> QED
    BY <2>1, <1>0, LaterAsks
<1>2. CASE Publish(t)
  <2>1. step[t] = "publish" /\ (Goto(t, "repoToken") \/ Fail(t, "fault") \/ Fail(t, "repository"))
    BY <1>2 DEF Publish, Goes
  <2> QED
    BY <2>1, <1>0, LaterAsks
<1>3. CASE PutSecret(t)
  <2>1. step[t] = "putSecret" /\ (Goto(t, "register") \/ Fail(t, "fault") \/ Fail(t, "secret"))
    BY <1>3 DEF PutSecret, Goes
  <2> QED
    BY <2>1, <1>0, LaterAsks
<1>4. CASE Register(t)
  <2>1. /\ step[t] = "register"
        /\ \/ Goto(t, "done")
           \/ Fail(t, "fault") \/ Fail(t, "repository") \/ Fail(t, "registered")
    BY <1>4 DEF Register, Goes
  <2> QED
    BY <2>1, <1>0, LaterAsks
<1>5. CASE FetchEntity(t)
  <2>1. step[t] = "entity" /\ (Goto(t, "publish") \/ Fail(t, "environment"))
    BY <1>5 DEF FetchEntity
  <2> QED
    BY <2>1, <1>0, LaterAsks
<1>6. CASE CreateRepoToken(t)
  <2>1. step[t] = "repoToken" /\ (Goto(t, "putSecret") \/ Fail(t, "repository"))
    BY <1>6 DEF CreateRepoToken
  <2> QED
    BY <2>1, <1>0, LaterAsks
<1> QED
  BY <1>1, <1>2, <1>3, <1>4, <1>5, <1>6 DEF MakeNext

\* A step that concerns one task keeps the invariant if it does so for that task.
LEMMA OneAsks ==
  ASSUME TypeOK, Asks, NEW t \in Tasks, ReadNext(t),
         UNCHANGED <<setting, stack, recorded>>, Ask(t)', Seen(t)'
  PROVE  Asks'
<1>1. ASSUME NEW u \in Tasks \ {t} PROVE Ask(u)' /\ Seen(u)'
  <2>0. /\ step \in [Tasks -> Steps] /\ why \in [Tasks -> Reasons]
        /\ found \in [Tasks -> SUBSET Providers] /\ ready \in [Tasks -> SUBSET Providers]
        /\ left \in [Tasks -> SUBSET Providers] /\ files \in [Tasks -> SUBSET Providers]
        /\ at \in [Tasks -> Providers \cup {None}]
    BY DEF TypeOK
  <2>1. step'[u] = step[u] /\ why'[u] = why[u]
    <3>1. \/ \E s \in Steps : Goto(t, s)
          \/ \E w \in Reasons : Fail(t, w)
      BY DEF ReadNext, Start, Fault, ReadEnvironment, ReadProviders, AssumeRole, ReadParameters,
             WriteFiles, FetchEntity, CreateRepoToken, Steps, Reasons
    <3> QED
      BY <3>1, <2>0 DEF Goto, Fail
  <2>2. /\ found'[u] = found[u] /\ ready'[u] = ready[u] /\ left'[u] = left[u]
        /\ files'[u] = files[u] /\ at'[u] = at[u]
    <3>1. CASE Start(t) \/ Fault(t) \/ WriteFiles(t) \/ FetchEntity(t) \/ CreateRepoToken(t)
      BY <3>1 DEF Start, Fault, WriteFiles, FetchEntity, CreateRepoToken, readVars
    <3>2. CASE ReadEnvironment(t)
      BY <3>2 DEF ReadEnvironment
    <3>3. CASE ReadProviders(t)
      BY <3>3, <2>0 DEF ReadProviders
    <3>4. CASE \E p \in Providers : AssumeRole(t, p)
      BY <3>4, <2>0 DEF AssumeRole
    <3>5. CASE \E p \in Providers : ReadParameters(t, p)
      BY <3>5, <2>0 DEF ReadParameters
    <3> QED
      BY <3>1, <3>2, <3>3, <3>4, <3>5 DEF ReadNext
  <2>3. Ask(u) /\ Seen(u)
    BY DEF Asks
  <2> QED
    BY <2>1, <2>2, <2>3
       DEF Ask, AskWhy, AskFirst, AskNow, AskDone, AskRefused, Sound, kind, Seen
<1> QED
  BY <1>1 DEF Asks, Deployed

\* What a task found, it asks one by one: each that answers was recorded, and of a kind that
\* serves; the one that refuses was not, or is of the basic kind, or is gone by then.
LEMMA ReadAsks ==
  ASSUME TypeOK, Asks, NEW t \in Tasks, ReadNext(t)
  PROVE  Asks'
<1>t. /\ step \in [Tasks -> Steps] /\ why \in [Tasks -> Reasons]
      /\ refs \in [Tasks -> SUBSET Providers]
      /\ found \in [Tasks -> SUBSET Providers] /\ ready \in [Tasks -> SUBSET Providers]
      /\ left \in [Tasks -> SUBSET Providers] /\ files \in [Tasks -> SUBSET Providers]
      /\ at \in [Tasks -> Providers \cup {None}]
      /\ stack \in [Providers -> {"none", "up", "gone"}]
  BY DEF TypeOK
<1>k. \A p \in Providers : kind[p] \in Kinds
  <2>1. setting \in Settings
    BY DEF TypeOK
  <2> QED
    BY <2>1, SettingsAssumption DEF kind
<1>f. /\ setting' = setting /\ stack' = stack /\ recorded' = recorded /\ kind' = kind
  BY ReadNextFrame DEF OnlyTask, envVars, kind
<1>a. Ask(t) /\ Seen(t) /\ Deployed
  BY DEF Asks
<1>1. CASE Start(t) \/ Fault(t) \/ ReadEnvironment(t) \/ WriteFiles(t)
  <2>1. /\ found'[t] = found[t] /\ ready'[t] = ready[t] /\ left'[t] = left[t]
        /\ files'[t] = files[t] /\ at'[t] = at[t]
    BY <1>1 DEF Start, Fault, ReadEnvironment, WriteFiles, readVars
  <2>2. \/ step[t] \in Before /\ step'[t] \in Before /\ why'[t] = why[t]
        \/ step'[t] = "failed" /\ why'[t] \notin Refusals
        \/ /\ step[t] = "provider" /\ left[t] = {}
           /\ step'[t] = "secret" /\ why'[t] = why[t]
        \/ /\ step[t] = "environment" /\ step'[t] = "providers" /\ why'[t] = why[t]
    BY <1>1, <1>t DEF Start, Fault, ReadEnvironment, WriteFiles, Goto, Fail, Before, Refusals
  <2>3. Ask(t)'
    BY <2>1, <2>2, <1>a, <1>f DEF Ask, AskWhy, AskFirst, AskNow, AskDone, AskRefused, Sound,
                                  Before, Refusals
  <2>4. Seen(t)'
    BY <2>1, <1>a, <1>f DEF Seen
  <2> QED
    BY <2>3, <2>4, <1>f, OneAsks
<1>2. CASE ReadProviders(t)
  <2>1. step[t] = "providers" /\ Goto(t, "provider") /\ UNCHANGED <<refs, at, files>>
    BY <1>2 DEF ReadProviders
  <2>2. ready'[t] \subseteq recorded /\ left'[t] = found'[t]
    BY <1>2, <1>t DEF ReadProviders
  <2>3. step'[t] = "provider" /\ why'[t] = why[t]
    BY <2>1, <1>t DEF Goto
  <2>4. files'[t] = {} /\ at'[t] = None /\ why[t] = ""
    BY <2>1, <1>a DEF Ask, AskFirst, AskWhy, Before
  <2>5. Ask(t)'
    BY <2>2, <2>3, <2>4 DEF Ask, AskWhy, AskFirst, AskNow, AskDone, AskRefused, Before, Refusals
  <2>6. Seen(t)'
    BY <2>2, <1>f DEF Seen
  <2> QED
    BY <2>5, <2>6, <1>f, OneAsks
<1>3. ASSUME NEW p \in Providers, AssumeRole(t, p) PROVE Asks'
  <2>1. /\ step[t] = "provider" /\ p \in left[t]
        /\ at' = [at EXCEPT ![t] = p] /\ UNCHANGED <<refs, found, ready, left, files>>
    BY <1>3 DEF AssumeRole
  <2>2. at'[t] = p /\ p # None /\ why[t] = ""
    BY <2>1, <1>t, <1>a, NoneAssumption DEF Ask, AskWhy
  <2>3. Seen(t)'
    BY <2>1, <1>a, <1>f DEF Seen
  <2>4. CASE Goto(t, "provider") /\ ~Unconfigured(kind[p], p \in ready[t])
    <3>1. step'[t] = "provider" /\ why'[t] = ""
      BY <2>4, <2>2, <1>t DEF Goto
    <3>2. p \in ready[t]
      <4> SUFFICES ASSUME p \notin ready[t] PROVE FALSE
        OBVIOUS
      <4>1. (p \in ready[t]) = FALSE
        OBVIOUS
      <4>2. ~Unconfigured(kind[p], FALSE)
        BY <2>4, <4>1
      <4> QED
        BY <4>2, <1>k, KindUnconfigured
    <3>3. kind[p] # "basic"
      BY <2>4, <3>2, BasicUnconfigured
    <3>4. Ask(t)'
      BY <2>1, <2>2, <3>1, <3>2, <3>3, <1>a, <1>f
         DEF Ask, AskWhy, AskFirst, AskNow, AskDone, AskRefused, Sound, Before, Refusals
    <3> QED
      BY <3>4, <2>3, <1>f, <1>3, OneAsks DEF ReadNext
  <2>5. CASE /\ Fail(t, "unrecorded") \/ Fail(t, "role")
             /\ Unconfigured(kind[p], p \in ready[t]) \/ ~Assumable(p)
    <3>1. step'[t] = "failed"
      BY <2>5, <1>t DEF Fail
    <3>2. p \notin ready[t] \/ stack[p] = "gone" \/ kind[p] = "basic"
      <4> SUFFICES ASSUME p \in ready[t], kind[p] # "basic" PROVE stack[p] = "gone"
        OBVIOUS
      <4>1. kind[p] \in Kinds \ {"basic"}
        BY <1>k
      <4>2. ~Unconfigured(kind[p], p \in ready[t])
        BY <4>1, KindConfigured
      <4>3. stack[p] # "up"
        BY <4>1, <4>2, <2>5, KindServes DEF Assumable
      <4>4. stack[p] # "none"
        BY <1>a DEF Seen, Deployed
      <4> QED
        BY <4>3, <4>4, <1>t
    <3>3. Ask(t)'
      BY <2>1, <2>2, <3>1, <3>2, <1>f
         DEF Ask, AskWhy, AskFirst, AskNow, AskDone, AskRefused, Before, Refusals
    <3> QED
      BY <3>3, <2>3, <1>f, <1>3, OneAsks DEF ReadNext
  <2> QED
    BY <1>3, <2>4, <2>5 DEF AssumeRole
<1>4. ASSUME NEW p \in Providers, ReadParameters(t, p) PROVE Asks'
  <2>1. step[t] = "provider" /\ at[t] = p /\ p # None /\ UNCHANGED <<refs, found, ready>>
    BY <1>4, NoneAssumption DEF ReadParameters
  <2>2. /\ files[t] \cup left[t] = found[t] /\ p \in left[t] /\ Sound(t, p) /\ why[t] = ""
        /\ \A r \in files[t] : Sound(t, r)
    BY <2>1, <1>a DEF Ask, AskWhy, AskNow
  <2>3. Seen(t)'
    BY <2>1, <1>a, <1>f DEF Seen
  <2>4. CASE Answered(t, p)
    <3>1. /\ files'[t] = files[t] \cup {p} /\ left'[t] = left[t] \ {p} /\ at'[t] = None
          /\ Goto(t, "provider")
      BY <1>4, <2>4, <1>t DEF ReadParameters
    <3>2. step'[t] = "provider" /\ why'[t] = ""
      BY <3>1, <2>2, <1>t DEF Goto
    <3>3. Ask(t)'
      BY <2>1, <2>2, <3>1, <3>2, <1>f
         DEF Ask, AskWhy, AskFirst, AskNow, AskDone, AskRefused, Sound, Before, Refusals
    <3> QED
      BY <3>3, <2>3, <1>f, <1>4, OneAsks DEF ReadNext
  <2>5. CASE ~Answered(t, p)
    <3>1. Fail(t, "parameter") /\ UNCHANGED <<files, left, at>>
      BY <1>4, <2>5 DEF ReadParameters
    <3>2. step'[t] = "failed"
      BY <3>1, <1>t DEF Fail
    <3>3. kind[p] \in Kinds \ {"basic"} /\ p \in ready[t]
      BY <1>k, <2>2 DEF Sound
    <3>4. stack[p] # "up"
      BY <3>3, <2>5, KindReadable DEF Answered
    <3>5. stack[p] = "gone"
      BY <3>3, <3>4, <1>a, <1>t DEF Seen, Deployed
    <3>6. Ask(t)'
      BY <2>1, <3>1, <3>2, <3>5, <1>f
         DEF Ask, AskWhy, AskFirst, AskNow, AskDone, AskRefused, Before
    <3> QED
      BY <3>6, <2>3, <1>f, <1>4, OneAsks DEF ReadNext
  <2> QED
    BY <2>4, <2>5
<1>5. CASE FetchEntity(t) \/ CreateRepoToken(t)
  BY <1>5, MakeAsks
<1> QED
  BY <1>1, <1>2, <1>3, <1>4, <1>5 DEF ReadNext

\* Every step keeps the invariant.
LEMMA NextAsks == TypeOK /\ Asks /\ [Next]_vars => Asks'
<1> SUFFICES ASSUME TypeOK, Asks, [Next]_vars PROVE Asks'
  OBVIOUS
<1>1. CASE UNCHANGED vars
  BY <1>1, AsksFrame DEF vars, envVars, taskVars
<1>2. CASE EnvNext
  BY <1>2, EnvAsks
<1>3. ASSUME NEW t \in Tasks, ReadNext(t) PROVE Asks'
  BY <1>3, ReadAsks
<1>4. ASSUME NEW t \in Tasks, MakeNext(t) PROVE Asks'
  BY <1>4, MakeAsks
<1>5. ASSUME NEW t \in Tasks, ClickDeleteAll(t) PROVE Asks'
  <2>1. UNCHANGED <<setting, stack, recorded, step, why>> /\ UNCHANGED readVars
    BY <1>5 DEF ClickDeleteAll, envVars, taskVars
  <2> QED
    BY <2>1, AsksFrame
<1>6. ASSUME NEW q \in Requests, DeleteNext(q) PROVE Asks'
  <2>1. UNCHANGED <<setting, envVars, taskVars>>
    BY <1>6 DEF DeleteNext, DeleteRepository, DeleteSecret, RemoveEntity, DeletionFails,
                OnlyDeletes
  <2>2. UNCHANGED <<setting, stack, recorded, step, why>> /\ UNCHANGED readVars
    BY <2>1 DEF envVars, taskVars
  <2> QED
    BY <2>2, AsksFrame
<1> QED
  BY <1>1, <1>2, <1>3, <1>4, <1>5, <1>6, NextParts

\* The providers an application is created for serve it.
LEMMA AsksServe == TypeOK /\ Asks => ProvidersServe
<1> SUFFICES ASSUME TypeOK, Asks, NEW t \in Tasks
             PROVE  /\ (step[t] \notin {"idle", "environment", "providers", "provider", "failed"}) =>
                         /\ files[t] = found[t] /\ found[t] \subseteq ready[t]
                         /\ \A p \in files[t] : Serves(kind[p])
                    /\ (why[t] \in {"unrecorded", "role", "parameter"}) =>
                         at[t] \notin ready[t] \/ stack[at[t]] = "gone" \/ kind[at[t]] = "basic"
  BY Zenon DEF ProvidersServe
<1>1. Ask(t)
  BY DEF Asks
<1>2. ASSUME NEW p \in files[t], Sound(t, p) PROVE Serves(kind[p])
  <2>1. p \in Providers /\ setting \in Settings
    BY DEF TypeOK
  <2>2. kind[p] \in Kinds \ {"basic"}
    BY <2>1, <1>2, SettingsAssumption DEF kind, Sound
  <2> QED
    BY <2>2, KindServes
<1> QED
  BY <1>1, <1>2 DEF Ask, AskDone, AskRefused, Sound, Before, Refusals

\* Every provider an application was created for was recorded when it was read, and what the
\* pages of the application call with its operations role and the jobs with its provisioning
\* role, the roles allow; a task is refused by no provider but one that was not recorded, or
\* whose stack is gone, or of the basic kind: for any number of providers, environments and
\* tasks, and whatever happens to the providers between the steps.
THEOREM ServingProviders == Spec => []ProvidersServe
<1>1. Init => TypeOK /\ Asks
  BY InitTypeOK, InitAsks
<1>2. (TypeOK /\ Asks) /\ [Next]_vars => (TypeOK /\ Asks)'
  BY NextTypeOK, NextAsks
<1>3. TypeOK /\ Asks => ProvidersServe
  BY AsksServe
<1> QED
  BY <1>1, <1>2, <1>3, PTL DEF Spec
===============================================================================
