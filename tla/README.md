# Verification of Harmonix on AWS

TLA+ specifications of the run-time core of Harmonix on AWS, checked with TLC on small
instances and proved with TLAPS for every value of the constants. `BP` below is
`src/backstage-plugins/plugins`.

## 1. Inventory

| Component | State it keeps | Operations | What is hard, what makes it correct |
|---|---|---|---|
| **AWS routes** (`BP/harmonix-backend/src/router.ts`, `api/AwsAppsApi.ts`, `api/aws-auth.ts`) | ONE `AWSSDKService` for all requests: credentials, account, region (`plugin.ts:34`) | about 20 POST routes; each logs in (`getApiClient`), awaits AWS calls, awaits an audit record, responds | every `await` is a point where another login replaces the credentials; audit after the fact; missing `return`s after a 500. Requests isolated by provider, audit tables segregated, success implies an audit record, everybody answered |
| **Git routes** (`router.ts`, `api/aws-platform.ts`, `gitService.ts`, `gitlab-api.ts`, `github-api.ts`) | ONE `AwsAppsPlatformApi`, ONE `GitService`: the git provider and its implementation | promote, bind, unbind, destroy, delete repository, add/remove provider, read a file | the provider is set on entry and used after an await; read-modify-write of an entity; one temporary file per repository as a mailbox; lost answers. The commit reaches the right host, an answer tells the truth, nothing scheduled or updated is lost |
| **GitLab pipelines** (`src/backstage-reference/common/cicd`) | the repository's `main`: entity, stage files, properties files, temporary files; CI/CD variables of the project | generate stages, deploy infrastructure, build, commit to Kubernetes, bind, unbind, destroy; nearly every job pushes `HEAD:main` | a push loses when `main` moved, another one writes over what it had not read; credentials shared by all pipelines; stages and dependencies searched as substrings. No change of the entity is lost unnoticed, what is scheduled stays scheduled until done, `main` stays a repository whose pipelines start |
| **Frontend polling** (`hooks/useCancellablePromise.ts`, `AppStateCard*`, `K8sAppStateCard`, `AppConfigCard`) | React state, one timer reference, pending promises | start, stop, deploy, poll until done, unmount | loops that share a timer, closures over old state, loops without bound. A card that left is quiet, no two loops disturb each other, the spinner ends |
| **Frontend deletion** (`Delete*Card`) | the entity as loaded with the page | delete stack or Terraform, repository, secret, catalog entity | steps ordered by sleeps instead of answers. What leaves the catalog takes along what nobody could delete any more |
| **Application context** (`hooks/useAwsApp.tsx`, `api/OPAApiClient.ts`, cards for promotion, binding, providers, logs, audit, infrastructure) | module-level variables: name, environment; one set of parameters for all requests | load, change environment, refresh, send | shared by all mounts and by loads in flight. A request names the deployment its card shows |
| **Scaffolder actions** (`BP/scaffolder-backend-module-harmonix`) and **catalog processors** | the task's outputs; relations in the catalog | the steps that create an application; relations of an environment | providers change between the steps; nothing is rolled back; names are used again. What is registered is whole and its providers can serve it |
| **Environments** (`src/iac/roots`, the templates of `src/backstage-reference`) | stacks, SSM parameters, metadata of a provider's entity | deploy, record | the names and the permissions on three sides must agree |
| **Common helpers** (`BP/harmonix-common`) | none | build a URL, read a repository's host | sequential |
| **Build scripts, configuration, website** | none at run time | | installation and documentation: not modelled |

The frontend calls the backend over HTTP (`OPAApiClient`); the backend calls AWS and a git
host; a git commit triggers a pipeline; the pipeline commits to the same repository and the
catalog reads it again. The scaffolder creates the repository, with one properties file for each
provider of the environment, from what it reads in the provider's account. Backend routes
run in one Node process, so the interleavings are
those of continuations between awaits, not of threads.

The full list of hazards, each at its line, is in `PROJECT.json`.

## 2. Modules

### SdkRequests: the AWS routes

One request has a *plan*: the calls its route awaits before the audit, whether it audits,
what it awaits afterwards, whether it catches a failing operation. `PlanOf` gives the plan
of every route that operates on AWS or reads it; a plan is made of the calls that the methods
of the service send (`ClusterCalls`, `StackCall`, ...). The state is

* `sdk`: whose credentials, account and region the shared service holds;
* for each request `phase`, `route`, `subject` (the provider in its body), `todo` (the calls
  not answered, the first in flight), `carries` (the credentials that call was SENT with)
  and `answer`;
* `auditTable`, one per provider;
* history, which no guard reads except to recall whether the operation failed: `log`
  (answered calls), `crossed` (another provider's login came meanwhile) and `returned` (a later
  login brought the service back to the request's own account).

| Action | Code |
|---|---|
| `Arrive`, `Refused`, `LoggedIn` | `getApiClient` with `getAWScreds`; the permission check of `/audit-entries` |
| `NextCall`, `Completed`, `Threw`, `Caught` | the awaits of a route and of the `AWSSDKService` methods it calls |
| `Operated` | `createRouterAuditRecord` is called |
| `AuditNamed`, `AuditNameFailed`, `AuditPut`, `AuditPutThrew`, with `GoOn` | `createAuditRecord`: name of the table, put, and what the route does next |

*Atomicity.* An action runs from the answer of one awaited call to the sending of the next.
Node drains its microtask queue between two I/O callbacks, so nothing comes between the
three `set...` calls of a login, nor between them and the first AWS call. A call's
credentials are read from the service when it is sent. The waits before AssumeRole (identity,
permissions) touch no shared state and are part of `Arrive`/`Refused`; "git" stands for
token and file, which do not use the shared service either.

*Abstractions.* An AWS call is answered or throws: the SDK throws for a status that is not
2xx, so the `httpStatusCode != 200` branches are not reached. The prefix and the name of a
provider are unique in an installation, so the parameter that names its audit table exists
in its own account only (two providers may share an account). A provider's operations role
may write every table of its account
(`src/iac/roots/opa-ecs-environment/src/constructs/ecs-env-operations-role-construct.ts:100-109`),
so the lookup of the name is what keeps a record out of a foreign table: it is answered only if
the credentials it was sent with are of the request's account (`OwnAccount`), and the put, sent
with those the service holds by then (`AuditSentWith`), likewise. That a name is found and empty
(`AwsAppsApi.ts:191`) is left out: the parameter is written with its stack. An operation in a
foreign account may succeed or fail: both are possible. Of several
responses the first counts; a later one throws in a promise nobody hears. `/ecs` may answer
without its last two calls, when there are no tasks.

### AuditTrail: what the backend promises about auditing

A request is about one provider; its operation is tried; at most one record is written for
it, after the operation was tried, into that provider's table; it is confirmed (200) only
with its record; records are never lost. `SdkRequests` implements it (`AuditTrailKept`)
under: tried = an operation was answered or threw, trail = the requests recorded in each
table, confirmed = audited routes answered with 200.

### GitRoutes: the git routes

A request names a repository, whose git provider is `Home[repo]`. Entering sets
`gitProvider` of the shared service; a platform request unsets it. The handler then awaits
the token, and only when it has it takes the implementation the service holds (`api`).
`update-provider` (`add`, `remove`) does this twice: read the entity, then commit it. The
remote side is `exists`, `slot` (whose properties file lies in the repository) and
`dependsOn`. History: `taken` (the requests whose file a pipeline took), `fate` of the change,
`crossed`, `stale` (the entity changed after the
request had read it), `ledger` (the entity if every update were one step).

| Action | Code |
|---|---|
| `Enter`, `EnterPlatform` | `getAwsAppsPlatformApi` |
| `TokenGot`, `TokenFailed`, `TokenWasted` | `getGitToken`; `this.git.gitProviderImpl`; `GitUnset`; YAML without a spec |
| `FileRead`, `EntityRead`, `FileCommitted`, `EntityCommitted`, `RepositoryDeleted` | the implementations' calls, with the answer heard or lost |
| `CallFailed`, `Misrouted` | the host refuses, the call throws, or the wrong host is asked |
| `PipelineTakes` | a GitLab job removes the file that scheduled it |

`Response` and `UpdateAnswer` give the answer each route makes of a result, which differs
between the two implementations (`GitHubAPI.commitContent` catches everything,
`GitLabAPI.commitContent` only reports the host's refusals) and, for `update-provider`,
depends on the provider the service is set to at that moment.

*Abstractions.* A commit is atomic at the host, also the one octokit's plugin makes in
several requests (the plugin's source is not in the repository). What a binding's policy
files add to a commit is only that GitLab may refuse it, which `CallFailed` allows. Asking
the wrong host for a repository never succeeds: the other host has no such project.
`dependsOn` is a set: `add` does not look for duplicates, but `remove` removes all of them.
A request promotes to one provider; the code commits all its files at once.

### EksCard: the state card of an EKS application

`K8sAppStateCard.tsx` loads the deployment's state, starts or stops it through the backend,
and polls the cluster. A *mount* is one time the card is on a page; mounts share the cluster
only. Each mount has React's state (`loading`, `error`, `appStarted`, `appStopped`, `shown`),
the one asynchronous function under way (`run`, `at`), what its closure holds (`skips`), the
timer of `timerRef` and whether its promise was cancelled. `begun` and `again` are history.

| Action | Code |
|---|---|
| `Mount`, `Unmount`, `CancelledSettles` | the effect and its clean-up; `useCancellablePromise` |
| `StateRead`, `ConfigRead`, `DataFailed` | `getData`, called by the effect and by the start handler |
| `Click`, `UpdateDone`, `UpdateFailed` | the handlers up to their loop |
| `Wakes`, `StartSeen`, `StopSeen`, `NotYet`, `PollFailed` | the loop: `sleep`, one poll, what it makes of the answer |
| `Converge`, `Waver` | the cluster; the kubectl Lambda function, which begins to answer without `Data.Value`, or ceases to (external) |

An answer without `Data.Value` (`mute`) is no error: `fetchAppState` returns no deployment
(`K8sAppStateCard.tsx:265`), a load then shows an empty card without buttons, and a loop polls on
although the cluster may have done what was asked (`Fetched`, `Reached`, `NotYet`).

*Abstractions.* One deployment with buttons, to which 0 or 1 replicas are asked; its
`updatedReplicas` are its `replicas`; it keeps its uid. The two calls of a fetch (cluster
name, Lambda) are one await. The environment variables are not modelled. That the effect
takes a failed load for a success, and erases its error, is (`DataFailed`).

### StackCard: the state card of a serverless application

`AppStateCardCloudFormation.tsx` on a page whose data `useAwsApp.tsx` loads. `refresh()`
loads the page anew, which unmounts the card and mounts another, so a loop ends by replacing
its own card. State: the stack, the page and what it fetched, the `current` mount, and for
each mount React's state (`card`), `timerRef`, the timers set (`armed`) and its asynchronous
functions (`run`): several, because Stop Polling brings the buttons back while a loop goes on.

| Action | Code |
|---|---|
| `StatusRead`, `LoadFailed`, `Mount`, `Return` | `getData` with `populateServerlessState`, `useAsyncRetry`, `AppStateCard` |
| `Leave`, `HandleRefresh`, `StopPolling`, `Click` | leaving the page, the buttons |
| `CallDone`, `CallFailed` | the handlers after their call |
| `PollEnds`, `PollAgain`, `Wakes` | `getStackEvents` and `sleep` |
| `CancelledSettles` | a promise of a mount that is gone |
| `StackEnds` | CloudFormation (external) |

*Abstractions.* A stack's status is not deployed, in progress, complete or failed. A poll may
end the loop at any time: it may fail, meet the last event of a nested stack or of the
operation before, or be the last one. A status that cannot be read counts as not deployed
(that is the code's, not the model's). Unmounting follows `refresh()` in the same step. A
mount that is gone is forgotten but for its cancelled calls, and its name is used again.

### StageFiles and Pipelines: the GitLab pipelines of an application

`StageFiles` holds, for each `APP_TEMPLATE_NAME`, the jobs that `create-ci-stages` writes
into the stage file of a provider, with the jobs each one `needs`, and the rules of the jobs:
which commit titles put them into a pipeline (`Includes`). GitLab refuses a pipeline in which
a job needs one that the rules left out (`NeedsHold`).

`Pipelines` runs them. A commit on `main` starts a pipeline, which works on the files of ITS
commit. The state is `template`, the files of `main` that matter (`tree`), how many commits it
has (`head`), for each pipeline its `commit` and the status of its jobs (`job`), what a
`git-commit` job has read (`seen`), whose credentials the CI/CD variables hold (`creds`).
History: `ledger` (the entity if every change were one step) and `outdated` (a `git-commit`
job wrote over a change that it had not seen).

| Action | Code |
|---|---|
| `Promote`, `Bind`, `Destroy`, `Develop` | the commits of the portal (`aws-platform.ts`) and of people |
| `CreateCiStages` | `scripts/*/create-ci-stages.sh`; its push starts the next pipeline |
| `DeployIac` | `.gitlab-ci-aws-iac-*.yml` |
| `BindResource`, `DestroyTf` | `scripts/resource-binding/*.sh`, `scripts/*/destroy-tf.sh` |
| `GetAwsCreds`, `Build`, `DeleteAwsCreds` | `.gitlab-ci-aws-image-kaniko.yml`, `sam-package` |
| `CommitReads`, `CommitWrites` | the two pulls of `git-commit` in `.gitlab-ci-aws-iac-eks.yml`, with its `after_script` |
| `Fails` | a job that fails of itself |

*Atomicity.* A job is one action, at the moment its push is accepted or refused: it works on
the files of its commit, so nothing that happens while it runs changes its result. `git-commit`
pulls, and takes two. A push is refused if `main` has moved since the pipeline's commit. What
is pushed with `ci.skip` starts no pipeline.

*Abstractions.* Names matter only where one begins another (`NameBegins`), because that is
what a substring search confuses. A manual job is one that nothing makes run; retries and
pipelines started by hand are left out. Terraform's `create-ci-stages` draws a new bucket for
its state at every run and appends it to each provider's properties file
(`scripts/example-tf-nodejs/create-ci-stages.sh:39-70, 167`). `.gitlab-ci-aws-iac-tf-ecs.yml:15` and
`destroy-tf.sh:17` read it there, so a deployment or destruction after a later run finds another
state than the one before. That is a real effect, which the model does not have: only that a job
deploys, not from which state. Of the rule of `create-ci-stages` on changed properties files
(`.gitlab-ci-aws-base.yml:9-10`) only the commits of the portal remain, whose titles the rule above
it takes anyway; a person who edits such a file by hand starts the job too, and is not modelled.

### PortalApi, AppContext, CardHandlers and Portal: the pages of the portal

`PortalApi` says which methods of `OPAApiClient.ts` take an override of the parameters that
the client keeps for the whole page, and which always name these.

`AppContext` is `useAwsApp.tsx`: `app`, `wanted` (`_change_to_env_name`) and `params` (the
client's parameters) outlive the page; `load` has every load under way, also those that were
overtaken; `current` and `shown` are the page. `ours` is whether the load of the page is the
one that set the parameters last.

| Action | Code |
|---|---|
| `OpenPage`, `OpenPlainPage`, `LeavePage` | the page of an application, or of an environment or a provider, which does not use the hook |
| `Select`, `Refresh` | `_setCurrentProvider`; `refresh()` |
| `CatalogAnswers`, `StateAnswers`, `LoadFails` | the ends of `getData`'s awaits; `useAsyncRetry` shows only the last load |

`CardHandlers` writes each handler of the cards as the steps it takes: `Await` a call, `Poll`
until an answer, `Pause`, with `Own` parameters; `Then` what it does to its card, `Fork` what
it starts without waiting, `Catch` what it does when the call fails. `Portal` EXTENDS both and
runs the handlers, each in a slot.

| Action of `Portal` | Code |
|---|---|
| `Open`, `Leave`, `Switch`, `Reload`, `LoadGoesOn`, `LoadStops` | those of `AppContext`, with the cards that mount and unmount |
| `Click` | the user, when the card offers the button |
| `Serve`, `Fail` | a request is served, or fails before or after it was |
| `GoOn`, `PollAgain`, `Wake` | the handler goes on after an answer or a pause |
| `Converge`, `AttachElsewhere` | ECS; another user attaches something to an environment or a provider (external) |

*Abstractions.* The tabs of a page are one page. An environment of an application has one
provider, so a deployment stands for both; the provider that a promotion is to is one of the
page's deployments. Requests whose effect nothing depends on are served when their answer is
taken. `removeLocationById` and `removeEntityByUid` are one step. The code deletes the
platform's secret for applications only, the model also for resources, which have the same
card. What a handler shows is four states of its card and whether a task is there.

Of a deployment on EKS both halves are there: `stack` (or Terraform's infrastructure) and
`workload`, the objects that its manifests made in the cluster. `deleteK8sApp` asks for those of the
environment the PAGE shows, in whichever round it is called (`DeleteComponentCard.tsx:162, 189`), and
so does `DeleteWorkload`. `Answers` ends it early where no manifests are.

Two restrictions. On the pages that delete, the user clicks when no handler is under way (`Offered`);
the buttons of `DeleteComponentCard.tsx:253-299` neither spin nor are disabled while "Delete All" runs,
so a second click in between is possible in the code and left out here. The management page is not
opened with a kind of infrastructure the portal does not know: `useAwsApp.tsx:417, 428` throws.

### Environments and Scaffolder: creating an application

`Environments` has, for each kind of environment provider, its stack (parameters, outputs,
what the operations and the provisioning role may do, who may assume them), the metadata keys
its template and its pipeline write, and on the other side what the portal's pages, an
application's jobs and the scaffolder ask of those roles and keys. It has no state.

`Scaffolder` runs the task that creates an application, while providers are created, deployed,
recorded, attached and deleted and while applications of the same name are deleted.

| Action | Code |
|---|---|
| `ReadEnvironment`, `ReadProviders` | `get-env-providers.ts`: relations, then entities |
| `AssumeRole`, `ReadParameters` | `get-env-providers.ts` for each provider, in its account |
| `WriteFiles` | `create-provider-propertiesFile.ts` |
| `CreateSecret`, `PutSecret` | `create-secret.ts`, `create-repo-access-token.ts` |
| `FetchEntity`, `Publish`, `CreateRepoToken`, `Register` | the steps of the template between and after |
| `Fault` | a step fails |
| `CreateProvider`, `Deploy`, `Record`, `DestroyStack`, `Unlist`, `Attach`, `Detach`, `DeleteEnvironment` | templates, pipelines and cards of providers and environments |
| `PostProcessEntity` | the catalog processor of environments |
| `ClickDeleteAll`, `DeleteRepository`, `DeleteSecret`, `RemoveEntity`, `DeletionFails` | `DeleteComponentCard` and the requests it does not wait for |

*Abstractions.* A provider's stack is deployed at most once. A provider's parameters are read
in one action: which of them is missing does not matter. A parameter is named for what it
holds; of a policy only the actions that somebody calls are kept, conditions and resource
patterns of the provider's own things are not. Publishing and registering (not in `src/`) do
what the template uses them for: a name is taken while its repository or entity exists.

### MC modules

`MCSdkRequests` and `MCGitRoutes` give `Account`, `Home` and symmetry sets; `MCPipelines` gives
the environments, the names that begin each other and the policies a binding sends; `MCPortal`
and `MCScaffolder` list the settings of which a behaviour picks one. The cards need none.

## 3. What the runs check

| Run | Bounds | Properties |
|---|---|---|
| `sdk_requests` | 2 requests, 3 providers in 2 accounts, 6 routes | type invariant; `FirstCallIsOwn`, `UncrossedIsIsolated`, `AuditIsTrue`, `SuccessIsAudited`; `EveryRequestIsAnswered`; refinement `AuditTrailKept` |
| `sdk_isolation` | 2 requests, 2 providers | **violated**: `IsolatedProviders` |
| `git_routes` | 2 requests, one repository on each provider, 2 environment providers, all routes | type invariant; `UncrossedReachesHome`, `SuccessIsCommitted`, `UncrossedIsTold`, `FreshUpdatesKept`, `ScheduledIsCarriedOut`, `OnlyTheDoomedFail`; `EveryRequestIsAnswered` |
| `git_lost_update` | 2 requests, 1 repository | **violated**: `UpdatesKept` |
| `pipelines` | 3 commits with pipelines, 3 templates, 4 providers in 3 environments, 2 resources | type invariant; `OneRecordPerPipeline`, `EntityKept`, `ScheduledUntilPushed`, `OnlyOverlapBreaksStages`, `CredentialsAreOwn`; `PromotedIsStaged` |
| `pipelines_destroy` | 2 commits, Terraform | **violated**: `DestructionIsStarted` |
| `portal` | 12 settings, 2 loads, 2 clicks | type invariant; `CallsAreOwn`, `RemovedIsTried`; `BusyEnds` |
| `portal_eks` | an EKS application in 2 environments, 1 load, 1 click | **violated**: `WorkloadsTried` |
| `scaffolder` | 9 settings, 2 providers, 2 tasks of one name, 2 deletions of each | type invariant; `RegisteredIsWhole`, `ProvidersServe` |
| `eks_card` | 2 mounts | type invariant; `ClickFindsNoLoop`, `StuckOnlyOnRepeat`; `GoneIsQuiet`, `StartEndsStarted`; `PollingEnds` |
| `eks_restart` | 1 mount | **violated**: `LoadingIsAtWork` |
| `stack_card` | 2 mounts, 2 runs each, 2 polls | type invariant; `NoLoopStranded`, `PollingIsAtWork`; `GoneIsSilent`; `OutcomeIsShown` |

The type invariant of each module is `TypeOK`.

*What the runs over components say.*

* `sdk_requests`. `AuditIsTrue`: what the audit table of a provider says was done there was not done
  in another account, although the operation, the lookup of the table's name and the put each leave
  with whatever credentials the service holds by then. It excepts requests whose service a later
  login brought back to their own account (`returned`): there the property fails, with an operation
  in the foreign account and a record in the home one. That takes a third request: with the run's
  two no record needs the exception, with three requests and three providers (1.69 million states,
  too many for a run) the property holds with it and is violated without. The proof is for any
  number.
* `git_routes`. `ScheduledIsCarriedOut`: a change scheduled on GitLab waits for the pipeline until
  a job takes it, once, and one that was answered with FAILURE or was not committed never is.
  `OnlyTheDoomedFail`: undisturbed changes are answered with SUCCESS, but for two routes that never
  are. unbind-resource calls `.json()` on the parsed result of its commit (`aws-platform.ts:406`) and
  answers 500 after it has unbound; update-provider parses as YAML what GitLab's implementation
  returns in base64 (`router.ts:359`). Both are against the documents: `website/docs/tests.md:77` and
  `:146` (E22, T610) expect an unbinding to succeed, `website/docs/integration/git.md:24-26` names
  GitLab as supported and `tests.md:114` (T203) adds a provider to an environment.
* `eks_card`. `PollingEnds`: a start or a stop that polls ends, once the Lambda function answers with
  the deployment from some time on (`<>[]~mute`); while it answers with nothing the loop goes on,
  and the property does not promise otherwise.
* `pipelines`. `OneRecordPerPipeline`: of the jobs of one pipeline that push without pulling at
  most one ever gets its result onto `main`. `EntityKept`: the entity holds what every pushed
  job was to change, but for a change that a `git-commit` job wrote over, and for dependencies
  whose name begins another's. `ScheduledUntilPushed`: a temporary file stays exactly until its
  own job has pushed. `OnlyOverlapBreaksStages`: `main` names an undeclared stage only when an
  environment's name begins another's. `CredentialsAreOwn`: the CI/CD variables work as a lock
  that outlives its pipeline only when a job failed. `PromotedIsStaged`: a provider with a
  properties file gets its stages, unless its pipeline was refused, broken or failed.
* `portal`. `CallsAreOwn`: a request names the deployment whose card sends it, while the load
  of the page is the one that set the shared parameters last. A load that was overtaken and sets
  them afterwards is thereby excepted: what it does to the requests of the page is the code's, and
  not ruled out. `RemovedIsTried`: what left the
  catalog took its repository and its deployments' stacks or Terraform infrastructure along, or they
  refused to go, and had nothing attached that its page knew of; and no stack of an EKS application
  goes before the Kubernetes objects of one of its environments (`WorkloadFirst`). That it should be
  those of each is `WorkloadsTried`, which is violated. `BusyEnds`: every spinner ends, but one
  whose handler failed without a catch or returned early, and one that waits for what a later click undid.
* `scaffolder`. `RegisteredIsWhole`: a registered application has the repository and the secret
  of its own task, with the token in it, unless an application of its name was asked twice to be
  deleted. `ProvidersServe`: an application that gets past its providers has all of them, each
  recorded, each with roles that allow what pages and jobs will do; and a provider that is
  recorded and stays is not refused, but for the basic kind.

*Bounds.* The six routes of `sdk_requests` are all the distinct plans. Two requests are enough
for one to take the service from another; that it comes back takes a third, for which the proofs
stand. Two
providers share an account so that a login can change the provider and not the account.
In `git_routes` one repository on each host is what a crossing needs, and two environment
providers what a lost update needs. Nothing is counted there, so no counter is cut.

Three commits (`Ids`) in `pipelines` are a new application's, the one of its stages, and one
that comes from outside while these run; or, for an application deployed before, two that overlap.
When they are used up, `CreateCiStages` still pushes, but its push starts nothing. The templates
are one for each way to push: Terraform, with credentials and a destruction; Kubernetes, with
`git-commit`; serverless, with neither. The first environment has two providers, so that two jobs
of a pipeline push; the name of another begins its name, as that of one resource begins the
other's. One resource comes with policies when it is bound and unbound, the other only when
bound. Only build and commit jobs fail of themselves: what a failure of the others leaves is
what a refusal leaves.

A setting of `portal` is the kind of page, how its application is deployed, who has pages,
the loads remembered at a time and the handlers started from cards. There are two loads where an
overtaken one matters, two clicks where two cards of a page work at once, and one setting for each
handler that differs; the deletion of two CDK deployments, of two Terraform ones on EKS and of one
of CDK on EKS are among them. `two` has two environments, so that one can be switched to and both
deleted;
`sam` is loaded with two awaits. A setting of `scaffolder` is a provider of each of the seven
kinds that comes and goes (one task, no deletion); one that changes beside one that stays (one
task, one deletion); and two tasks of one name, each deleted up to twice (`MaxClicks`).

Two mounts of the EKS card are one user's two visits or two users who work against each
other. Of the stack's card two mounts let calls of a gone one be answered while the next
polls, and two runs let a loop sleep while another handler works. `MaxPolls`, 720 in the
code, is 2, so that a loop sleeps and wakes; the proofs are for any number.

*Deadlock.* `pipelines`, `portal` and `scaffolder` do not check it: pipelines end and no commit is
left, everything with a page has been deleted, all tasks have ended. Where somebody waits for
something in them, the properties say what.

*Fairness.* Weak fairness of each request's continuation: an awaited call ends, with an
answer or an error (SDK and fetch time out), and Node runs a ready continuation. Nothing
makes a request arrive, and nothing makes the pipeline run. In `pipelines` a runner takes up
`create-ci-stages`, which is never manual; no other job need run. In the cards, calls are answered
and timers fire, the page's data load or fail to, and the EKS cluster does what it is told;
CloudFormation need not end, and users need not do anything. In `portal` each handler that a
click started goes on, the others go on as a whole, and ECS brings some service on; loads may
take for ever. `PollingEnds` gives up when somebody changes the replicas, and `OutcomeIsShown`
when another operation begins. `scaffolder` states no fairness and no liveness: a task may fail
at every step.

*The five violations* are disagreements between the code and what the documentation says.

* `sdk_isolation`: a request for p1 awaits (a cluster's name, a file from git, an audit
  lookup), p3 logs in, and p1's next call leaves with p3's credentials. The documents
  promise isolated providers. What does hold is what the passing runs state: the first call
  is always right, uncrossed requests are isolated, records tell the truth.
  The request that was hit usually ends with a failed audit, after its operation has run in
  the other account.
* `git_lost_update`: two `update-provider` requests read the same entity, both succeed, one
  update is gone. `FreshUpdatesKept` says this is the only way to lose one.
* `eks_restart`: nothing sets `appStarted` back, so a second start on one page skips its loop,
  and with it what would end the loading. `StuckOnlyOnRepeat` says this is the only way to get
  there.
* `pipelines_destroy`: the destruction of a deployed Terraform application is committed and answered
  with "Destroy will not be complete until deployment succeeds" (`aws-platform.ts:218`), but its
  pipeline does not start: `build-image` leaves its title out (`.gitlab-ci-aws-image-kaniko.yml:53`) and
  `delete-aws-creds`, which does not, needs it. `website/docs/tests.md:71` (E16) and
  `website/docs/features.md:182` expect the deletion to work. `RefusedForNeeds` says which templates
  and titles this concerns. The property asks for less than the documents do: that the pipeline has
  the job, not that it succeeds.
* `portal_eks`: "Delete All" asks for the Kubernetes objects of the page's environment twice, and for
  those of the other never, before its stack, the repository and the entity go
  (`DeleteComponentCard.tsx:162, 257`; `website/docs/tests.md:72, 155`: E17, T619).

*Exceptions that the passing properties make.* The properties name them as the only ways out.

* Pipelines. The second of two providers of an environment is deployed and its record refused
  (`.gitlab-ci-aws-iac-ecs.yml:40`). An environment whose name begins that of one staged before
  gets no stages, and its stage file breaks every later pipeline (`create-ci-stages.sh:41`); a
  resource whose name begins that of one bound counts as bound (`bind-resource.sh:7`). Credentials
    left by a failed build block every later pipeline (`.gitlab-ci-aws-image-kaniko.yml:14`).
  `deploy-image` is in no
  pipeline (`StageFiles!DeployRule`), and the rules for "Bind Resource to env" match only commits
  with `ci.skip`.
* Portal. A load that was overtaken sets the shared parameters when the catalog answers it
  (`useAwsApp.tsx:456`), and pages of environments and providers never set them: their
  `deleteRepository` names the last application visited. Handlers go on when their page is left,
  and one that ends with `navigate('/')` takes the user away from another. An uncaught failure
  leaves the spinner (the lookups of a promotion, a failed restart), so do an empty variable name,
  an unknown kind of infrastructure, and a missing resource group, for which the catch itself fails.
* Scaffolder. A failed step leaves the secret and the repository made before it, and the secret
  left blocks the next task of that name. A deletion asked for twice may take the repository of
  the next application of that name. A provider missing from the catalog is left out without a
  word. The basic provider never serves: its pipeline writes keys that nobody reads.

Met while reading and not part of a property: the effect of mounting in `K8sAppStateCard.tsx`
erases the error of a failed load (its `.then` runs because `getData` catches); restarting an ECS
service names the task definition the
entity knew when the page was loaded; unbinding sends policies only for databases.

## 4. What is proved

All theorems hold for any values of the constants under the named assumptions.

`SdkRequestsProofs`, for any sets of requests, providers and routes and any
`Account`: `TypeCorrect`, `FirstCallOwn`, `UncrossedIsolated`, `AuditTrue`,
`SuccessAudited` and the refinement `KeepsAuditTrail`. The assumptions are `NoneAssumption`
(`None` is no provider) and `RoutesAssumption` (the routes have plans).

The invariant is `Inv == TypeOK /\ Progress /\ Identity /\ Truth /\ Audits`; none of the properties
but the type invariant is inductive.

* `Progress` ties `phase` to the plan: while a request works through an audited plan the last
  call still to come is the operation, a route that catches awaits nothing but operations,
  after the audit only lookups are left, and from the audit on the operation has been tried.
  It gives the refinement that a record is written only after the operation was tried.
* `Identity` says of the call in flight what `UncrossedIsIsolated` says of the log, and that
  while a request is uncrossed and waiting the service holds its provider; `FirstCallIsOwn`
  needs the same of a first call not answered yet.
* `Truth` is what keeps records true: while an operation in another account is on its way or done,
  the service holds a foreign account, unless it came back (`returned`); so the lookup of the audit
  leaves with foreign credentials and finds no table, and a put is of a request whose operations
  were all at home.
* `Audits` says that records are of their own request and table and true, that a request has one only
  once it is past its audit, that a 200 of an audited route came with one, and that a request
  which waits after its audit without an answer has one (its audit did not fail).

`PlansAreShaped` is the lemma about the plans: every route awaits a call before its audit,
the last one is the operation, and nothing after the audit operates again. Each action has
one step in the preservation proof of each part. The refinement maps `Arrive` to
`Begin`, the actions that answer an "act" to `Try`, `AuditPut` to `Record`, a later response
of an audited request to `Confirm`, and everything else to a stutter.

`GitRoutesProofs`, for any requests, repositories, providers and `Home`:
`TypeCorrect`, `ReachesHome`, `SuccessCommitted`, `UncrossedTold`, `UpdatesKeptFresh`,
`CarriedOut` and `DoomedAreTheTwo`. The assumptions are `HomeAssumption` (each repository is on
GitLab or GitHub),
`NoneIsNothing` (`None` is no value of any kind) and `OpsAssumption` (the routes exercised have
courses). The invariant is
`Inv == TypeOK /\ Shape /\ Routed /\ Told /\ Fresh /\ FreshUpdatesKept`.

* `Shape` ties `op`, `todo`, `snapshot` and `fate` to `phase`: a commit that is served belongs
  to a handler with nothing else to do, and that of an update has read a spec, which only
  GitHub's entities have.
* `Routed` adds to `UncrossedReachesHome` that the service is set to the provider of every
  uncrossed request in service: what the handler takes after its token, and what
  `updateProvider` looks at after its commit, is then the right one.
* `Told` is `SuccessIsCommitted` and `UncrossedIsTold`; with `Routed` the answer to an update
  is GitHub's.
* `Fresh` says that a reading no update has outdated is still what the entity holds, without
  which `FreshUpdatesKept` is not inductive.

There is one lemma for each action. `CarriedOut` needs, over `Inv`, `Carried`: a file that lies in a
repository is that of one request, which committed it, in its own repository and under the name its
route writes, and was not taken; on GitLab what was committed still lies there or was taken.

`DoomedAreTheTwo`, which is `OnlyTheDoomedFail`, needs, over `Inv`,
`Settled`: an uncrossed call goes home, so that no uncrossed handler ends as `Misrouted`; a
handler that has read no spec is GitLab's; hence a handler that ends without a change, nothing
having failed, is an update on GitLab, which never commits.

`PipelinesProofs`, for any commits, providers, environments, resources, names and order of
files: `TypeCorrect`, `StagesDeclared`, `OneRecord`, `EntityIsKept`, `Scheduled`,
`OwnCredentials` and `DestroyNeverFollowsStages` (no application with a stage file ever runs the
destruction of its infrastructure: the finding of `pipelines_destroy`, for any application); and of
the rules alone `RefusedForNeeds`: for every template and title GitLab refuses a pipeline for a needed
job exactly if it is to destroy, by the stage files that have `delete-aws-creds`, which are those of
nodejs, nodejsRds, pythonFlask and tfNodejs. (The EKS ones take their credentials away otherwise;
of the four only Terraform's has destructions.) The assumptions are `EnvAssumption` (providers have
environments), `FileOrderAssumption` (every provider's file comes somewhere in the order),
`TemplatesAssumption`, `NoneAssumption` and `FailingAssumption` (that `get-aws-creds` may fail is
in its own action). The invariant is `Inv == Shape /\ OnMain /\ JobsStarted /\ PushedIsPast`: what
the records are made of; that no pipeline is of a commit `main` does not have; that jobs are
only of pipelines that were started; and that a pipeline one of whose jobs has pushed is behind
`main`, so that no other of its jobs can. To it each theorem adds a part of its own:

* `KeptInv` strengthens `EntityKept` to records that are made of their fields (`Held`), since
  changes are compared field by field. While nobody wrote over a change, a job that pushes works
  on the entity that is on `main`, and `git-commit` on the one it has read.
* `CredsInv` puts the three jobs that share the credentials of a provider in the order of their
  needs, and says at which statuses of the first and the last the variables are this pipeline's.
* `DestroyOfTerraform` says whose destructions are asked for, and the lemma `DestroyNeedsFail` the rest.
* `TypeInv == TypeOK /\ Readings /\ Subjects` holds with `OnlyOverlapBreaksStages`: a job that is
  reading has read an entity, and the commits of bindings are about resources. What
  `create-ci-stages` makes of the stages is `StagesFor`, a function of how many files it has
  gone through. Its induction is by the smallest counterexample (`Smallest`, from
  `WellFoundedInduction`): `StagingExists` that there is such a function, whose last value
  `StagingOf` takes, and then that after each file every provider met so far finds its stage, or
  one whose name its environment's begins.

`JobStep` and `Arrival` describe the two ways in which a pipeline's jobs change; each action of
`Next` is shown once to be one of them (or, for `CreateCiStages`, both), and the proofs of the
invariants go by these.

`PortalProofs`, for any applications, deployments, settings, loads and clicks: `TypeCorrect`
and `CallsNameTheirOwn`. The assumptions are `DepsAssumption`, `ServerlessAssumption`,
`SettingsAssumption`, `KindsAssumption`, `SlotsAssumption` (the slots of handlers are different)
and `NoneAssumption`. The invariant is `Inv == TypeOK /\ Shows /\ Threads`. `Shows` says that
what is shown is the deployment of the current load and, where the load of the page has set
the parameters, that they name it. `Threads` says of each handler under way that its step is
one of its plan's (`Live`), that it is about the deployment its page shows (`OfPage`), and that its
request names whom it is meant for, while its page is current and its load the one that set the
parameters (`OwnOf`). `SettledPlans` is the lemma
about the plans: an override is given only to methods that take one.

`RemovalProofs`, under the same assumptions: `RemovalsAreTried`, which is `RemovedIsTried` for any
applications, deployments, clicks and kinds of deployment. Nothing of the property is inductive:
the handlers that delete are started by others, awaited by none, and go on after their page.
The invariant is `Inv /\ Tries /\ Sweeps`, with `Tries == Slotted /\ Alone /\ Dues /\ Left /\ Opened`.

* `Slotted` says which handler may be in which slot: "Delete All" and its like in those of the
  clicks, what they start in a slot of its own, the deletion of a deployment in that deployment's.
* `Alone`: on the pages that delete, all handlers under way are about one application. So the
  slot of `deleteRepo` cannot be taken by the deletion of another one.
* `Dues` says what must be gone, under way or refused (`Tried`) when a handler is at a step: the
  deployments when "Delete All" sleeps the first time, the repository from its second pause on, the
  stack of a provider once its request is answered, everything (`Whole`) for `deleteFromCatalog`.
* `Left`: what has left the catalog is `Whole`; on the pages that only operate, nothing has.
* `Opened`: the page of an environment or provider shows its lowest deployment, and its card
  knows of what was attached when it was opened. What was attached later is `unseen`.

`Sweeps` is `WorkloadFirst` with what makes it inductive: on the page of an EKS application a handler
that deletes a deployment has, from the end of its request to the Lambda function on, asked for the
Kubernetes objects of the environment its page shows, or found it had none (`Swept`).

The proof goes by the plans. `MinorHandlers` says that all but five start no handler and delete
nothing from the catalog; `DeleteAllSteps`, `DeleteEnvironmentSteps`, `DeleteProviderSteps` and
`DeletionIsLast` say what the steps of the others start and call. `SegmentGrows` is the lemma of
every step between two awaits: what was tried stays tried, since a handler that ends was answered or
refused. `NextIsDue` and `CatalogIsDue` carry `Dues` from one step of a plan to the next and to
`deleteFromCatalog`; `QuietMoves` covers what happens while the handlers stand.

`ScaffolderProofs`, for any providers, environments, names, tasks and settings: `TypeCorrect`,
`WholeApplications` and `ServingProviders`. The assumptions are `SettingsAssumption`,
`ClicksAssumption` (`MaxClicks` is a number) and `NoneAssumption`. `WholeApplications` rests on
`Inv == TypeOK /\ Core`: a task past the step that creates a thing holds it under its name, until
its application is asked to be deleted (`TaskInv`), and a request for the deletion of a repository
aims at that of its own task, while no one asked twice (`Aimed`). `ServingProviders` rests on
`Asks`: only deployed providers are recorded (`Deployed`), what a task read as recorded was
(`Seen`), and the providers that a task found are answered, asked or left at each step, or the
reason is known why it was refused (`Ask`); `KindServes` evaluates the tables of `Environments` for
each kind.

`EksCardProofs`, for any number of mounts: `TypeCorrect`, `NoLoopAtClick`,
`StuckByRepetition`, `QuietWhenGone` and `StartedAtEnd`, with no assumption. The
invariant is said mount by mount: `PlaceOf` fits `at` to `run`; `LifeOf` has the timer set only
while a loop sleeps, and the timer cleared and the call cancelled on a mount that left;
`BusyOf` has the buttons hidden, by `loading` or by `error`, while anything is under way;
`MemoryOf` lets `appStarted` and `appStopped` be set only by a handler that has run; `SeenOf`
says that a start which shows data without an error has seen the application started.

`StackCardProofs`, for any number of mounts, runs and polls: `TypeCorrect`,
`LoopsKeepTimers`, `PollingWorks` and `SilentWhenGone`, from `MaxPollsAssumption` (there is a
poll) and `NoneIsNothing`. The invariant is
`Inv == TypeOK /\ CardIsShown /\ Quiet /\ OneLoop /\ Bounded /\ Idle /\ PollingIsAtWork`.

* `OneLoop`: the card on the page has at most one run that is a loop or will become one, and
  `timerRef` holds its timer; so what is cleared on waking or unmounting is its own.
* `Idle` is why: buttons that show while polling is enabled find no run at all, and Stop
  Polling, which brings them back earlier, also keeps the next handler from a loop.
* `Quiet`: a mount off the page has only cancelled calls; its one timer was cleared.
* `Bounded`: a loop that sleeps has a poll left, without which the count's type is not inductive.

`UnmountKeepsInv` is the lemma of all steps that take the card off the page, `RunKeepsInv`
of those in which a run goes on.

*Only model-checked.* Liveness under fairness is out of the prover's reach:
`EveryRequestIsAnswered` of both backend modules, `PromotedIsStaged`, `BusyEnds`, `PollingEnds`
and `OutcomeIsShown`. Every other property of the passing runs has a theorem. What the library's
induction cannot be used for, the values of the recursive function `StagesFor`, is proved from
the least counterexample instead.

## 5. Plan

The modules planned are written, and their safety proved. What could be added, in this order:
an abstract specification of an entity that is updated atomically, which `GitRoutes` and
`Pipelines` implement while nothing is stale; the pipelines of environments and of bare resources.

## 6. Not modelled

* Contents of AWS answers, of files and of messages; the user's identity and ownership;
  authorisation before `getApiClient` other than as an answer; `createRepository`, which no
  route calls.
* Of the portal: pages of resources and components, cards and columns that only format, the
  variables on the EKS card, what a card tells of a success.
* Of the scaffolder: `get-ssm-parameters` and `getEnvironmentProviderConnectInfo`, which no
  template uses; `get-component-info` and `get-platform-metadata`, which compute an answer from
  their input; dry runs. Of the catalog: its processing loop and the validation of entities.
* Of the infrastructure: the platform's host, database, DNS, firewall and GitLab host, which only
  exist; the Terraform provider; the example applications that the skeletons hold.
* Of the pipelines: those of environments and bare resources, but for what an environment's
  records; retries and manual starts.
* Website, build and installation scripts.
