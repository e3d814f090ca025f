------------------------------- MODULE Scaffolder -------------------------------
(***************************************************************************)
(* Creating an application from a template: the task the scaffolder runs   *)
(* for it, with the actions of harmonix, against the catalog, the providers*)
(* of the environment, the secrets of the platform, and GitLab; and the    *)
(* card that deletes the application again.                                *)
(*                                                                         *)
(* A step of the task is a step of the template.  A call that changes      *)
(* something may have done so and fail all the same, and what the task did *)
(* before a step that fails stays.                                         *)
(***************************************************************************)
EXTENDS Naturals, Environments

CONSTANTS
  Providers,
  Envs,
  Names,      \* of repositories; the secret is named for the repository
  Tasks,
  Settings,   \* what a behaviour is about: the kinds of its providers, those that come and
              \* go, those that are there from the start and stay, its tasks, and how
              \* often an application is asked to be deleted
  MaxClicks,  \* bounds the times an application is asked to be deleted
  None

ASSUME SettingsAssumption ==
  \A s \in Settings :
    /\ DOMAIN s = {"kind", "providers", "settled", "tasks", "clicks"}
    /\ s.kind \in [Providers -> Kinds]
    /\ s.providers \subseteq Providers /\ s.settled \subseteq Providers
    /\ s.tasks \subseteq Tasks /\ s.clicks \in 0..MaxClicks
ASSUME ClicksAssumption == MaxClicks \in Nat
ASSUME NoneAssumption == None \notin Providers \cup Tasks

VARIABLES
  setting,
  \* the providers and the environments
  stack,     \* of each provider, its stack
  recorded,  \* the providers whose pipeline recorded the stack in the catalog
  listed,    \* the providers in the catalog
  envs,      \* the environments in the catalog
  declared,  \* of each environment, the providers its entity depends on
  related,   \* of each environment, those the catalog has relations to
  \* the tasks
  step,
  name, env, \* what is created, where
  refs,      \* the relations read
  found,     \* the providers read, of which
  ready,     \* those that were recorded
  left,      \* those still to be asked
  at,        \* the one whose role is held, or that was refused
  files,     \* those whose parameters go to a file of the repository
  why,       \* why it failed
  \* what is created, by name
  secret, token, repo, app,
  \* the deletions
  pending,   \* the requests under way
  clicks     \* how often the deletion of what a task created was asked for

envVars == <<stack, recorded, listed, envs, declared, related>>
readVars == <<refs, found, ready, left, at, files>>
taskVars == <<step, name, env, readVars, why>>
madeVars == <<secret, token, repo, app>>
cardVars == <<pending, clicks>>
vars == <<setting, envVars, taskVars, madeVars, cardVars>>

kind == setting.kind

Steps == {"idle", "environment", "providers", "provider", "secret", "entity", "publish",
          "repoToken", "putSecret", "register", "done", "failed"}
Reasons == {"", "fault", "environment", "unrecorded", "role", "parameter", "secret",
            "repository", "registered"}
Requests == [what : {"repository", "secret", "entity"}, of : Tasks, nth : 0..MaxClicks]

Init ==
  /\ setting \in Settings
  /\ stack = [p \in Providers |-> IF p \in setting.settled THEN "up" ELSE "none"]
  /\ recorded = setting.settled /\ listed = setting.settled
  /\ envs = Envs
  /\ declared = [e \in Envs |-> setting.settled]
  /\ related = [e \in Envs |-> setting.settled]
  /\ step = [t \in Tasks |-> "idle"]
  /\ name \in [Tasks -> Names]
  /\ env \in [Tasks -> Envs]
  /\ refs = [t \in Tasks |-> {}] /\ found = [t \in Tasks |-> {}]
  /\ ready = [t \in Tasks |-> {}] /\ left = [t \in Tasks |-> {}]
  /\ at = [t \in Tasks |-> None]
  /\ files = [t \in Tasks |-> {}]
  /\ why = [t \in Tasks |-> ""]
  /\ secret = [n \in Names |-> None] /\ token = [n \in Names |-> None]
  /\ repo = [n \in Names |-> None] /\ app = [n \in Names |-> None]
  /\ pending = {}
  /\ clicks = [t \in Tasks |-> 0]

-------------------------------------------------------------------------------
(* The providers and the environments. *)

OnlyEnvironments == UNCHANGED <<setting, taskVars, madeVars, cardVars>>
Changes(p) == p \in setting.providers

\* The template of a provider registers it with the keys the pipeline is to fill in.
CreateProvider(p) ==
  /\ Changes(p) /\ stack[p] = "none" /\ p \notin listed
  /\ listed' = listed \cup {p}
  /\ OnlyEnvironments /\ UNCHANGED <<stack, recorded, envs, declared, related>>

\* The jobs of the provider's pipeline: the deployment and the commit of its outputs.
Deploy(p) ==
  /\ Changes(p) /\ p \in listed /\ stack[p] = "none"
  /\ stack' = [stack EXCEPT ![p] = "up"]
  /\ OnlyEnvironments /\ UNCHANGED <<recorded, listed, envs, declared, related>>

Record(p) ==
  /\ Changes(p) /\ p \in listed \ recorded /\ stack[p] = "up"
  /\ recorded' = recorded \cup {p}
  /\ OnlyEnvironments /\ UNCHANGED <<stack, listed, envs, declared, related>>

\* Deleting a provider takes its stack and its entity away, in either order.
DestroyStack(p) ==
  /\ Changes(p) /\ stack[p] = "up"
  /\ stack' = [stack EXCEPT ![p] = "gone"]
  /\ OnlyEnvironments /\ UNCHANGED <<recorded, listed, envs, declared, related>>

Unlist(p) ==
  /\ Changes(p) /\ p \in listed
  /\ listed' = listed \ {p}
  /\ OnlyEnvironments /\ UNCHANGED <<stack, recorded, envs, declared, related>>

Attach(e, p) ==
  /\ Changes(p) /\ e \in envs /\ p \in listed \ declared[e]
  /\ declared' = [declared EXCEPT ![e] = @ \cup {p}]
  /\ OnlyEnvironments /\ UNCHANGED <<stack, recorded, listed, envs, related>>

Detach(e, p) ==
  /\ Changes(p) /\ e \in envs /\ p \in declared[e]
  /\ declared' = [declared EXCEPT ![e] = @ \ {p}]
  /\ OnlyEnvironments /\ UNCHANGED <<stack, recorded, listed, envs, related>>

\* Mutant: the relations are emitted from the providers to the environment.
PostProcessEntity_SwapsEnds(e) ==
  /\ e \in envs /\ related[e] # declared[e]
  /\ related' = [related EXCEPT ![e] = {e}]
  /\ OnlyEnvironments /\ UNCHANGED <<stack, recorded, listed, envs, declared>>

\* The catalog processes the entity: a relation for each provider it depends on.
PostProcessEntity(e) ==
  /\ e \in envs /\ related[e] # declared[e]
  /\ related' = [related EXCEPT ![e] = declared[e]]
  /\ OnlyEnvironments /\ UNCHANGED <<stack, recorded, listed, envs, declared>>

DeleteEnvironment(e) ==
  /\ e \in envs
  /\ envs' = envs \ {e}
  /\ OnlyEnvironments /\ UNCHANGED <<stack, recorded, listed, declared, related>>

-------------------------------------------------------------------------------
(* The steps of a task. *)

Goto(t, s) == step' = [step EXCEPT ![t] = s] /\ UNCHANGED why
Fail(t, w) == step' = [step EXCEPT ![t] = "failed"] /\ why' = [why EXCEPT ![t] = w]
\* After a call that did what it should: its answer may be lost.
Goes(t, s) == Goto(t, s) \/ Fail(t, "fault")

OnlyTask == UNCHANGED <<setting, envVars, name, env, cardVars>>

Start(t) ==
  /\ step[t] = "idle" /\ t \in setting.tasks
  /\ Goto(t, "environment")
  /\ OnlyTask /\ UNCHANGED <<readVars, madeVars>>

Fault(t) ==
  /\ step[t] \notin {"idle", "done", "failed"}
  /\ Fail(t, "fault")
  /\ OnlyTask /\ UNCHANGED <<readVars, madeVars>>

ReadEnvironment(t) ==
  /\ step[t] = "environment"
  /\ \/ /\ env[t] \in envs
        /\ refs' = [refs EXCEPT ![t] = related[env[t]]]
        /\ Goto(t, "providers")
     \/ env[t] \notin envs /\ Fail(t, "environment") /\ UNCHANGED refs
  /\ OnlyTask /\ UNCHANGED <<found, ready, left, at, files, madeVars>>

\* An entity the catalog does not have, or without the keys, is dropped silently.
Keyed(p) == "vpc" \in DOMAIN Metadata(kind[p], p \in recorded)

ReadProviders(t) ==
  /\ step[t] = "providers"
  /\ LET items == {p \in refs[t] \cap listed : Keyed(p)}
     IN  /\ found' = [found EXCEPT ![t] = items]
         /\ ready' = [ready EXCEPT ![t] = items \cap recorded]
         /\ left' = [left EXCEPT ![t] = items]
  /\ Goto(t, "provider")
  /\ OnlyTask /\ UNCHANGED <<refs, at, files, madeVars>>

\* The metadata read are checked, then the operations role of the provider is assumed.
Assumable(p) ==
  /\ stack[p] = "up"
  /\ "sts:AssumeRole" \in Platform[StackOf[kind[p]].operationsBy]

\* Mutant: a provider that fails is left out instead of failing the task.
AssumeRole_LeavesOut(t, p) ==
  /\ step[t] = "provider" /\ p \in left[t] /\ at[t] = None
  /\ \/ at' = [at EXCEPT ![t] = p] /\ ~Unconfigured(kind[p], p \in ready[t]) /\ UNCHANGED left
     \/ left' = [left EXCEPT ![t] = @ \ {p}] /\ Unconfigured(kind[p], p \in ready[t])
           /\ UNCHANGED at
  /\ Goto(t, "provider")
  /\ OnlyTask /\ UNCHANGED <<refs, found, ready, files, madeVars>>

AssumeRole(t, p) ==
  /\ step[t] = "provider" /\ p \in left[t] /\ at[t] = None
  /\ at' = [at EXCEPT ![t] = p]
  /\ \/ Unconfigured(kind[p], p \in ready[t]) /\ Fail(t, "unrecorded")
     \/ ~Unconfigured(kind[p], p \in ready[t]) /\ ~Assumable(p) /\ Fail(t, "role")
     \/ ~Unconfigured(kind[p], p \in ready[t]) /\ Assumable(p) /\ Goto(t, "provider")
  /\ OnlyTask /\ UNCHANGED <<refs, found, ready, left, files, madeVars>>

\* All the parameters of the provider: one that is missing fails the task as the stack does.
Answered(t, p) ==
  stack[p] = "up" /\ ParametersRead(kind[p], p \in ready[t]) \subseteq Readable(kind[p])

ReadParameters(t, p) ==
  /\ step[t] = "provider" /\ at[t] = p /\ p \in Providers
  /\ \/ /\ Answered(t, p)
        /\ files' = [files EXCEPT ![t] = @ \cup {p}]
        /\ left' = [left EXCEPT ![t] = @ \ {p}]
        /\ at' = [at EXCEPT ![t] = None]
        /\ Goto(t, "provider")
     \/ ~Answered(t, p) /\ Fail(t, "parameter") /\ UNCHANGED <<files, left, at>>
  /\ OnlyTask /\ UNCHANGED <<refs, found, ready, madeVars>>

\* One file for each provider answered.
WriteFiles(t) ==
  /\ step[t] = "provider" /\ left[t] = {}
  /\ Goto(t, "secret")
  /\ OnlyTask /\ UNCHANGED <<readVars, madeVars>>

\* The name of a secret is taken while it exists.
CreateSecret(t) ==
  /\ step[t] = "secret"
  /\ \/ /\ secret[name[t]] = None
        /\ secret' = [secret EXCEPT ![name[t]] = t]
        /\ token' = [token EXCEPT ![name[t]] = None]
        /\ Goes(t, "entity")
     \/ secret[name[t]] # None /\ Fail(t, "secret") /\ UNCHANGED <<secret, token>>
  /\ OnlyTask /\ UNCHANGED <<readVars, repo, app>>

\* The content is fetched, then the environment's entity once more.
FetchEntity(t) ==
  /\ step[t] = "entity"
  /\ \/ env[t] \in envs /\ Goto(t, "publish")
     \/ env[t] \notin envs /\ Fail(t, "environment")
  /\ OnlyTask /\ UNCHANGED <<readVars, madeVars>>

Publish(t) ==
  /\ step[t] = "publish"
  /\ \/ /\ repo[name[t]] = None
        /\ repo' = [repo EXCEPT ![name[t]] = t]
        /\ Goes(t, "repoToken")
     \/ repo[name[t]] # None /\ Fail(t, "repository") /\ UNCHANGED repo
  /\ OnlyTask /\ UNCHANGED <<readVars, secret, token, app>>

\* The token is of the project that was published; it is not stored yet.
CreateRepoToken(t) ==
  /\ step[t] = "repoToken"
  /\ \/ repo[name[t]] = t /\ Goto(t, "putSecret")
     \/ repo[name[t]] # t /\ Fail(t, "repository")
  /\ OnlyTask /\ UNCHANGED <<readVars, madeVars>>

\* Mutant: the call is not waited for, its failure is not seen.
PutSecret_NotAwaited(t) ==
  /\ step[t] = "putSecret"
  /\ token' \in {token, [token EXCEPT ![name[t]] = t]}
  /\ Goto(t, "register")
  /\ OnlyTask /\ UNCHANGED <<readVars, secret, repo, app>>

\* The secret is addressed by the ARN its creation returned.
PutSecret(t) ==
  /\ step[t] = "putSecret"
  /\ \/ /\ secret[name[t]] = t
        /\ token' = [token EXCEPT ![name[t]] = t]
        /\ Goes(t, "register")
     \/ secret[name[t]] # t /\ Fail(t, "secret") /\ UNCHANGED token
  /\ OnlyTask /\ UNCHANGED <<readVars, secret, repo, app>>

\* What is registered is the file of the repository of that name.
Register(t) ==
  /\ step[t] = "register"
  /\ \/ /\ repo[name[t]] # None /\ app[name[t]] = None
        /\ app' = [app EXCEPT ![name[t]] = t]
        /\ Goes(t, "done")
     \/ repo[name[t]] = None /\ Fail(t, "repository") /\ UNCHANGED app
     \/ app[name[t]] # None /\ Fail(t, "registered") /\ UNCHANGED app
  /\ OnlyTask /\ UNCHANGED <<readVars, secret, token, repo>>

TaskStep(t) ==
  \/ ReadEnvironment(t) \/ ReadProviders(t)
  \/ \E p \in Providers : AssumeRole(t, p) \/ ReadParameters(t, p)
  \/ WriteFiles(t) \/ CreateSecret(t) \/ FetchEntity(t) \/ Publish(t)
  \/ CreateRepoToken(t) \/ PutSecret(t) \/ Register(t)

-------------------------------------------------------------------------------
(* Deleting what a task created, from its page, which may stay open in another tab. *)

Request(t, what) == [what |-> what, of |-> t, nth |-> clicks[t]]

\* None of the requests waits for another.
ClickDeleteAll(t) ==
  /\ app[name[t]] = t \/ clicks[t] > 0
  /\ clicks[t] < setting.clicks
  /\ pending' = pending \cup {Request(t, what) : what \in {"repository", "secret", "entity"}}
  /\ clicks' = [clicks EXCEPT ![t] = @ + 1]
  /\ UNCHANGED <<setting, envVars, taskVars, madeVars>>

OnlyDeletes(q) ==
  /\ q \in pending /\ pending' = pending \ {q}
  /\ UNCHANGED <<setting, envVars, taskVars, clicks>>

\* The repository is named, the secret is addressed by its ARN, the entity by its uid.
DeleteRepository(q) ==
  /\ q.what = "repository"
  /\ repo' = [repo EXCEPT ![name[q.of]] = None]
  /\ OnlyDeletes(q) /\ UNCHANGED <<secret, token, app>>

DeleteSecret(q) ==
  /\ q.what = "secret"
  /\ \/ /\ secret[name[q.of]] = q.of
        /\ secret' = [secret EXCEPT ![name[q.of]] = None]
        /\ token' = [token EXCEPT ![name[q.of]] = None]
     \/ secret[name[q.of]] # q.of /\ UNCHANGED <<secret, token>>
  /\ OnlyDeletes(q) /\ UNCHANGED <<repo, app>>

RemoveEntity(q) ==
  /\ q.what = "entity"
  /\ \/ app[name[q.of]] = q.of /\ app' = [app EXCEPT ![name[q.of]] = None]
     \/ app[name[q.of]] # q.of /\ UNCHANGED app
  /\ OnlyDeletes(q) /\ UNCHANGED <<secret, token, repo>>

DeletionFails(q) == OnlyDeletes(q) /\ UNCHANGED madeVars

-------------------------------------------------------------------------------
Next ==
  \/ \E p \in Providers :
       CreateProvider(p) \/ Deploy(p) \/ Record(p) \/ DestroyStack(p) \/ Unlist(p)
  \/ \E e \in Envs : PostProcessEntity(e) \/ DeleteEnvironment(e)
  \/ \E e \in Envs, p \in Providers : Attach(e, p) \/ Detach(e, p)
  \/ \E t \in Tasks : Start(t) \/ Fault(t) \/ TaskStep(t) \/ ClickDeleteAll(t)
  \/ \E q \in Requests :
       DeleteRepository(q) \/ DeleteSecret(q) \/ RemoveEntity(q) \/ DeletionFails(q)

Spec == Init /\ [][Next]_vars

-------------------------------------------------------------------------------
\* Every variable has its type; what is by name was created by a task of that name.
TypeOK ==
  /\ setting \in Settings
  /\ stack \in [Providers -> {"none", "up", "gone"}]
  /\ recorded \subseteq Providers /\ listed \subseteq Providers /\ envs \subseteq Envs
  /\ declared \in [Envs -> SUBSET Providers] /\ related \in [Envs -> SUBSET Providers]
  /\ step \in [Tasks -> Steps] /\ why \in [Tasks -> Reasons]
  /\ name \in [Tasks -> Names] /\ env \in [Tasks -> Envs]
  /\ refs \in [Tasks -> SUBSET Providers] /\ found \in [Tasks -> SUBSET Providers]
  /\ ready \in [Tasks -> SUBSET Providers] /\ left \in [Tasks -> SUBSET Providers]
  /\ files \in [Tasks -> SUBSET Providers] /\ at \in [Tasks -> Providers \cup {None}]
  /\ secret \in [Names -> Tasks \cup {None}] /\ token \in [Names -> Tasks \cup {None}]
  /\ repo \in [Names -> Tasks \cup {None}] /\ app \in [Names -> Tasks \cup {None}]
  /\ pending \subseteq Requests /\ clicks \in [Tasks -> 0..MaxClicks]

\* No application of the name was asked to be deleted twice.
Calm(n) == \A t \in Tasks : name[t] = n => clicks[t] <= 1

\* The deletion of an application is three requests nobody waits for, and names are used
\* again: an application in the catalog whose own deletion nobody asked for has the
\* repository its task published, and the secret its task created with that repository's
\* token in it, whatever became of the tasks and of the applications of that name before.
\* (A deletion that is asked for twice may take away the next application's repository.)
RegisteredIsWhole ==
  \A n \in Names :
    (Calm(n) /\ app[n] # None) =>
      LET t == app[n]
      IN  clicks[t] = 0 => repo[n] = t /\ secret[n] = t /\ token[n] = t

\* What a page of an application does with the provider's operations role, and its jobs
\* with the provisioning role, the roles of the stack allow, and those who assume them may.
Serves(k) ==
  /\ PageCalls[EnvType[k]] \subseteq StackOf[k].operations
  /\ PlatformCalls \subseteq Platform[StackOf[k].operationsBy]
  /\ JobCalls[EnvType[k]] \subseteq StackOf[k].provisioning
  /\ PipelineCalls \subseteq Platform[StackOf[k].provisioningBy]
  /\ EnvType[k] = "eks" =>
       /\ KubectlCalls \subseteq StackOf[k].kubectl
       /\ Empty \notin {Value(Metadata(k, TRUE), key) : key \in {"kubectlLambdaArn", "clusterAdminRole"}}

\* The providers a task reads may be deployed, recorded, deleted and detached between its
\* steps.  A task past them has a file for each provider it found, all were recorded when
\* it read them, and their stacks serve what the portal and the pipeline will ask of them.
\* One that was refused at a provider found it unrecorded, or the provider's stack is gone:
\* a provider whose pipeline has ended and that nobody deletes is never refused.  (That of
\* the basic kind always is: its pipeline records keys nobody reads.)
ProvidersServe ==
  \A t \in Tasks :
    /\ (step[t] \notin {"idle", "environment", "providers", "provider", "failed"}) =>
         /\ files[t] = found[t] /\ found[t] \subseteq ready[t]
         /\ \A p \in files[t] : Serves(kind[p])
    /\ (why[t] \in {"unrecorded", "role", "parameter"}) =>
         \/ at[t] \notin ready[t]
         \/ stack[at[t]] = "gone"
         \/ kind[at[t]] = "basic"
===============================================================================
