------------------------------- MODULE GitRoutes -------------------------------
(***************************************************************************)
(* The routes of harmonix-backend that work on git repositories            *)
(* (router.ts), all of them served by the ONE AwsAppsPlatformApi and the   *)
(* ONE GitService that plugin.ts creates.                                  *)
(*                                                                         *)
(* A route sets the git provider of the shared service as it enters        *)
(* (getAwsAppsPlatformApi), awaits the provider's token, and only then     *)
(* takes the implementation, GitLabAPI or GitHubAPI, that the service      *)
(* holds NOW.  A request that enters in between changes it; a platform     *)
(* request, which names no repository, unsets it.                          *)
(*                                                                         *)
(* One action is one continuation, from the answer of one awaited call to  *)
(* the sending of the next, with the effect of the call in the repository. *)
(***************************************************************************)
EXTENDS Naturals, Sequences

CONSTANTS Requests,      \* the requests that may be in flight together
          Repos,         \* the repositories of applications and environments
          Home,          \* the git provider that hosts each of them
          EnvProviders,  \* the environment providers the requests speak of
          Ops,           \* the routes exercised, a set of names of GitCalls
          None

ASSUME HomeAssumption == Home \in [Repos -> {"GITLAB", "GITHUB"}]
ASSUME NoneIsNothing ==
  /\ None \notin Requests \cup Repos \cup EnvProviders
  /\ \A E \in SUBSET EnvProviders : None # E

\* getPlatformSecretValue, getSsmValue and deletePlatformSecret send one call, in the
\* platform's own region.
PlatformCall == <<"aws">>

\* The git calls each route awaits, each of them after a token.  "add" and "remove" are
\* the two actions of update-provider, which reads the entity, changes what it depends on
\* and commits it; "read" stands for fetch-eks-config and for the stack parameters that
\* createStack and updateStack fetch; "platform" for the routes without a repository.
GitCalls ==
  [read |-> <<"get">>, promote |-> <<"commit">>, bind |-> <<"commit">>,
   unbind |-> <<"commit">>, destroy |-> <<"commit">>, deleteRepo |-> <<"delete">>,
   add |-> <<"get", "commit">>, remove |-> <<"get", "commit">>, platform |-> PlatformCall]

ASSUME OpsAssumption == Ops \subseteq DOMAIN GitCalls /\ None \notin DOMAIN GitCalls

Updates == {"add", "remove"}

\* The routes whose commit leaves a file for the pipelines to act on.
Scheduling == {"promote", "bind", "unbind", "destroy"}

\* The files a commit schedules work with: one properties file for each provider an
\* application is promoted to, and one temporary file for a binding and for a destruction.
Files == EnvProviders \cup {"binding", "destroy"}

-------------------------------------------------------------------------------
VARIABLES
  \* of the one GitService
  gitProvider, \* the provider it is set to
  \* of each request
  phase,       \* where its handler waits
  op,          \* its route
  repo,        \* the repository its body names
  env,         \* the environment provider its body names
  todo,        \* the git calls not answered yet
  api,         \* the implementation it took for the call in flight
  snapshot,    \* what the entity read depended on; None if nothing was read that has a spec
  answer,      \* the status in the response's body, or of the response
  \* of the git hosts
  exists,      \* whether the repository is there
  slot,        \* which request's file lies in the repository
  dependsOn,   \* the providers the repository's entity depends on
  taken,       \* the requests whose file a pipeline job has taken
  \* what happened, for the properties
  fate,        \* of the change a request asks for
  crossed,     \* whether the shared service was set to another provider meanwhile
  stale,       \* whether the entity changed after the request had read it
  ledger       \* what the entity would depend on, had each update been one step

vars == <<gitProvider, phase, op, repo, env, todo, api, snapshot, answer,
          exists, slot, dependsOn, taken, fate, crossed, stale, ledger>>

request == <<op, repo, env>>
remote == <<exists, slot, dependsOn, taken>>
past == <<fate, crossed, stale, ledger>>

Providers == {"UNSET", "GITLAB", "GITHUB"}
Entity == SUBSET EnvProviders

TypeOK ==
  /\ gitProvider \in Providers
  /\ phase \in [Requests -> {"idle", "token", "call", "done"}]
  /\ op \in [Requests -> Ops \cup {None}]
  /\ repo \in [Requests -> Repos \cup {None}]
  /\ env \in [Requests -> EnvProviders \cup {None}]
  /\ todo \in [Requests -> Seq({"get", "commit", "delete", "aws"})]
  /\ api \in [Requests -> Providers \cup {None}]
  /\ snapshot \in [Requests -> Entity \cup {None}]
  /\ answer \in [Requests -> {"none", "SUCCESS", "FAILURE", "200", "500"}]
  /\ exists \in [Repos -> BOOLEAN]
  /\ slot \in [Repos -> [Files -> Requests \cup {None}]]
  /\ dependsOn \in [Repos -> Entity]
  /\ taken \in SUBSET Requests
  /\ fate \in [Requests -> {"none", "failed", "lost", "heard"}]
  /\ crossed \in [Requests -> BOOLEAN]
  /\ stale \in [Requests -> BOOLEAN]
  /\ ledger \in [Repos -> Entity]

Init ==
  /\ gitProvider = "UNSET"
  /\ phase = [r \in Requests |-> "idle"]
  /\ op = [r \in Requests |-> None]
  /\ repo = [r \in Requests |-> None]
  /\ env = [r \in Requests |-> None]
  /\ todo = [r \in Requests |-> <<>>]
  /\ api = [r \in Requests |-> None]
  /\ snapshot = [r \in Requests |-> None]
  /\ answer = [r \in Requests |-> "none"]
  /\ exists = [x \in Repos |-> TRUE]
  /\ slot = [x \in Repos |-> [f \in Files |-> None]]
  /\ dependsOn \in [Repos -> {{e} : e \in EnvProviders}]
  /\ taken = {}
  /\ fate = [r \in Requests |-> "none"]
  /\ crossed = [r \in Requests |-> FALSE]
  /\ stale = [r \in Requests |-> FALSE]
  /\ ledger = dependsOn

-------------------------------------------------------------------------------
(* Pieces of a continuation. *)

HomeOf(r) == Home[repo[r]]

\* The request has come and is not answered: a change of the shared service reaches it.
InService(q) == phase[q] \in {"token", "call"} /\ repo[q] # None

Finish(r, status) ==
  /\ phase' = [phase EXCEPT ![r] = "done"]
  /\ answer' = [answer EXCEPT ![r] = status]
  /\ todo' = [todo EXCEPT ![r] = <<>>]
  /\ UNCHANGED <<gitProvider, request, api, snapshot>>

Record(r, what) == fate' = [fate EXCEPT ![r] = what]

\* GitHubAPI catches what its commit throws and returns a failure; nothing else is caught.
Thrown(r, outcome) == outcome = "threw" /\ ~(api[r] = "GITHUB" /\ Head(todo[r]) = "commit")

\* Whether the commit succeeded is not looked at.
SlipUpdateAnswer(r, ok) == IF gitProvider = "GITLAB" THEN "500" ELSE "SUCCESS"

\* Only GitLab's results are known.
SlipGitLabOnly(r, ok) == "500"

\* updateProvider looks at the result as the git provider of the service tells it to, not
\* as the implementation that made it.
UpdateAnswer(r, ok) ==
  IF gitProvider = "GITLAB" THEN "500"               \* value.json is no function
  ELSE IF ok THEN "SUCCESS"
  ELSE IF gitProvider = "GITHUB" THEN "FAILURE"
  ELSE "500"                                         \* resultBody is undefined

\* The response to a call that was "ok", "rejected" by the git host, or that "threw".
Response(r, outcome) ==
  LET ok == outcome = "ok" IN
  IF Thrown(r, outcome) \/ op[r] = "unbind" THEN "500"        \* value.json is no function
  ELSE IF op[r] \in Updates
    THEN IF Head(todo[r]) = "commit" THEN UpdateAnswer(r, ok) ELSE "500"
  ELSE IF op[r] \in {"read", "platform"}
    THEN IF ok /\ (op[r] = "read" => api[r] = "GITLAB") THEN "200" ELSE "500"  \* atob of the text
  ELSE IF ok THEN "SUCCESS"
  ELSE IF op[r] \in {"promote", "bind"} THEN "FAILURE" ELSE "500"

WrittenFile(r) ==
  IF op[r] = "promote" THEN env[r] ELSE IF op[r] = "destroy" THEN "destroy" ELSE "binding"

\* The environment itself is added to what it depends on.
SlipUpdated(r, entity) == IF op[r] = "add" THEN entity \cup {repo[r]} ELSE entity \ {env[r]}

\* add and remove, to what was read.
Updated(r, entity) == IF op[r] = "add" THEN entity \cup {env[r]} ELSE entity \ {env[r]}

-------------------------------------------------------------------------------
(* Entering a route. *)

\* Only a request of another git provider changes the shared service.
Crosses(provider) ==
  crossed' = [q \in Requests |-> crossed[q] \/ (InService(q) /\ HomeOf(q) # provider)]

\* The service is set only while it is unset.
SlipEnter(r) ==
  /\ phase[r] = "idle"
  /\ \E o \in Ops \ {"platform"}, x \in Repos, e \in EnvProviders \cup {None} :
       /\ e # None <=> o \in Updates \cup {"promote"}
       /\ op' = [op EXCEPT ![r] = o]
       /\ repo' = [repo EXCEPT ![r] = x]
       /\ env' = [env EXCEPT ![r] = e]
       /\ todo' = [todo EXCEPT ![r] = GitCalls[o]]
       /\ gitProvider' = IF gitProvider = "UNSET" THEN Home[x] ELSE gitProvider
       /\ Crosses(Home[x])
  /\ phase' = [phase EXCEPT ![r] = "token"]
  /\ UNCHANGED <<api, snapshot, answer, remote, fate, stale, ledger>>

\* A request that names a repository: the service is set to its git provider, and the
\* handler asks Secrets Manager for the token.
Enter(r) ==
  /\ phase[r] = "idle"
  /\ \E o \in Ops \ {"platform"}, x \in Repos, e \in EnvProviders :
       /\ op' = [op EXCEPT ![r] = o]
       /\ repo' = [repo EXCEPT ![r] = x]
       /\ env' = [env EXCEPT ![r] = e]
       /\ todo' = [todo EXCEPT ![r] = GitCalls[o]]
       /\ gitProvider' = Home[x]
       /\ Crosses(Home[x])
  /\ phase' = [phase EXCEPT ![r] = "token"]
  /\ UNCHANGED <<api, snapshot, answer, remote, fate, stale, ledger>>

\* A platform request: the service is unset, and the one AWS call leaves.
EnterPlatform(r) ==
  /\ phase[r] = "idle"
  /\ "platform" \in Ops
  /\ op' = [op EXCEPT ![r] = "platform"]
  /\ todo' = [todo EXCEPT ![r] = GitCalls["platform"]]
  /\ gitProvider' = "UNSET"
  /\ Crosses("UNSET")
  /\ phase' = [phase EXCEPT ![r] = "call"]
  /\ UNCHANGED <<repo, env, api, snapshot, answer, remote, fate, stale, ledger>>

-------------------------------------------------------------------------------
(* The token. *)

\* The failure ends the handler before it has answered.
SlipTokenFailed(r) ==
  /\ phase[r] = "token"
  /\ Finish(r, "none")
  /\ Record(r, "failed")
  /\ UNCHANGED <<remote, crossed, stale, ledger>>

TokenFailed(r) ==
  /\ phase[r] = "token"
  /\ Finish(r, "500")
  /\ Record(r, "failed")
  /\ UNCHANGED <<remote, crossed, stale, ledger>>

\* Before its commit updateProvider needs the spec of the entity that was read.
NoSpec(r) == op[r] \in Updates /\ Head(todo[r]) = "commit" /\ snapshot[r] = None

\* The handler takes the implementation the service holds now and sends the call.
TokenGot(r) ==
  /\ phase[r] = "token"
  /\ ~NoSpec(r)
  /\ gitProvider # "UNSET"
  /\ api' = [api EXCEPT ![r] = gitProvider]
  /\ phase' = [phase EXCEPT ![r] = "call"]
  /\ UNCHANGED <<gitProvider, request, todo, snapshot, answer, remote, past>>

\* The entity has no spec, or GitUnset throws.
TokenWasted(r) ==
  /\ phase[r] = "token"
  /\ NoSpec(r) \/ gitProvider = "UNSET"
  /\ Finish(r, "500")
  /\ UNCHANGED <<remote, past>>

-------------------------------------------------------------------------------
(* The call. *)

\* The call is served: it reached the provider that hosts the repository.
Served(r, kind) ==
  /\ phase[r] = "call"
  /\ Head(todo[r]) = kind
  /\ kind # "aws" => api[r] = HomeOf(r) /\ exists[repo[r]]

\* The one call of a platform request is answered.
PlatformAnswered(r) ==
  /\ Served(r, "aws")
  /\ Finish(r, Response(r, "ok"))
  /\ UNCHANGED <<remote, past>>

FileRead(r) ==
  /\ Served(r, "get")
  /\ op[r] = "read"
  /\ Finish(r, Response(r, "ok"))
  /\ UNCHANGED <<remote, past>>

\* Nobody decodes what was read.
SlipEntityRead(r) ==
  /\ Served(r, "get")
  /\ op[r] \in Updates
  /\ snapshot' = [snapshot EXCEPT ![r] = None]
  /\ todo' = [todo EXCEPT ![r] = Tail(@)]
  /\ phase' = [phase EXCEPT ![r] = "token"]
  /\ UNCHANGED <<gitProvider, request, api, answer, remote, past>>

\* The entity is read.  GitHubAPI decodes the content and GitLabAPI does not, so that
\* YAML.parse makes a string of it, without a spec.
EntityRead(r) ==
  /\ Served(r, "get")
  /\ op[r] \in Updates
  /\ snapshot' = [snapshot EXCEPT ![r] = IF api[r] = "GITHUB" THEN dependsOn[repo[r]] ELSE None]
  /\ todo' = [todo EXCEPT ![r] = Tail(@)]
  /\ phase' = [phase EXCEPT ![r] = "token"]
  /\ UNCHANGED <<gitProvider, request, api, answer, remote, past>>

\* The change is made, and the answer is heard, or the connection breaks.
Changed(r) ==
  \/ Record(r, "heard") /\ Finish(r, Response(r, "ok"))
  \/ Record(r, "lost") /\ Finish(r, Response(r, "threw"))

\* The commit updates the file that is there.
SlipFileCommitted(r) ==
  /\ Served(r, "commit")
  /\ op[r] \notin Updates
  /\ slot' = [slot EXCEPT ![repo[r]][WrittenFile(r)] = r]
  /\ Changed(r)
  /\ UNCHANGED <<exists, dependsOn, taken, crossed, stale, ledger>>

\* GitLab refuses to create a file that is there; GitHub writes over it.
FileCommitted(r) ==
  /\ Served(r, "commit")
  /\ op[r] \notin Updates
  /\ HomeOf(r) = "GITLAB" => slot[repo[r]][WrittenFile(r)] = None
  /\ slot' = [slot EXCEPT ![repo[r]][WrittenFile(r)] = r]
  /\ Changed(r)
  /\ UNCHANGED <<exists, dependsOn, taken, crossed, stale, ledger>>

\* The dependencies are started afresh.
SlipEntityCommitted(r) ==
  /\ Served(r, "commit")
  /\ op[r] \in Updates
  /\ dependsOn' = [dependsOn EXCEPT ![repo[r]] = Updated(r, {})]
  /\ ledger' = [ledger EXCEPT ![repo[r]] = Updated(r, @)]
  /\ stale' = [q \in Requests |->
                 stale[q] \/ (q # r /\ repo[q] = repo[r] /\ snapshot[q] # None /\ InService(q))]
  /\ Changed(r)
  /\ UNCHANGED <<exists, slot, taken, crossed>>

\* The whole entity is written from what was read, whatever happened since.
EntityCommitted(r) ==
  /\ Served(r, "commit")
  /\ op[r] \in Updates
  /\ dependsOn' = [dependsOn EXCEPT ![repo[r]] = Updated(r, snapshot[r])]
  /\ ledger' = [ledger EXCEPT ![repo[r]] = Updated(r, @)]
  /\ stale' = [q \in Requests |->
                 stale[q] \/ (q # r /\ repo[q] = repo[r] /\ snapshot[q] # None /\ InService(q))]
  /\ Changed(r)
  /\ UNCHANGED <<exists, slot, taken, crossed>>

RepositoryDeleted(r) ==
  /\ Served(r, "delete")
  /\ exists' = [exists EXCEPT ![repo[r]] = FALSE]
  /\ Changed(r)
  /\ UNCHANGED <<slot, dependsOn, taken, crossed, stale, ledger>>

\* The git host or AWS refuses the call, or it throws.
CallFailed(r) ==
  /\ phase[r] = "call"
  /\ \E outcome \in {"rejected", "threw"} : Finish(r, Response(r, outcome))
  /\ Record(r, "failed")
  /\ UNCHANGED <<remote, crossed, stale, ledger>>

\* A call made to the wrong git provider cannot succeed: the repository is not there.
Misrouted(r) ==
  /\ phase[r] = "call"
  /\ repo[r] # None /\ api[r] # HomeOf(r)
  /\ Finish(r, Response(r, "threw"))
  /\ UNCHANGED <<remote, past>>

-------------------------------------------------------------------------------
\* A GitLab pipeline job takes the temporary file and does what it says.
PipelineTakes(x, f) ==
  /\ Home[x] = "GITLAB" /\ exists[x] /\ slot[x][f] # None
  /\ slot' = [slot EXCEPT ![x][f] = None]
  /\ taken' = taken \cup {slot[x][f]}
  /\ UNCHANGED <<gitProvider, phase, request, todo, api, snapshot, answer, exists, dependsOn, past>>

Continue(r) ==
  \/ TokenFailed(r) \/ TokenGot(r) \/ TokenWasted(r)
  \/ PlatformAnswered(r) \/ FileRead(r) \/ EntityRead(r)
  \/ FileCommitted(r) \/ EntityCommitted(r) \/ RepositoryDeleted(r)
  \/ CallFailed(r) \/ Misrouted(r)

\* Every request has been answered: nothing is left to do.
AllDone ==
  /\ \A r \in Requests : phase[r] = "done"
  /\ UNCHANGED vars

Next ==
  \/ \E r \in Requests : Enter(r) \/ EnterPlatform(r) \/ Continue(r)
  \/ \E x \in Repos, f \in {"binding", "destroy"} : PipelineTakes(x, f)
  \/ AllDone

\* Every call ends, with an answer or an error, and Node runs what is ready to run.
Fairness == \A r \in Requests : WF_vars(Continue(r))

Spec == Init /\ [][Next]_vars

FairSpec == Spec /\ Fairness

-------------------------------------------------------------------------------
(* Properties. *)

\* A request that no request of another git provider crosses talks to the git provider
\* that hosts its repository: the one shared service is harmless while all the requests
\* in flight are for the same provider.
UncrossedReachesHome ==
  \A r \in Requests : ~crossed[r] /\ repo[r] # None => api[r] \in {None, HomeOf(r)}

\* SUCCESS is answered only when the change is in the repository, whichever provider the
\* shared service was set to when the commit was sent and when its result was looked at.
SuccessIsCommitted ==
  \A r \in Requests : answer[r] = "SUCCESS" => fate[r] = "heard"

\* A change that was made and acknowledged is reported as SUCCESS, unless another git
\* provider's request crossed or the route is unbind-resource, whose answer is always 500.
UncrossedIsTold ==
  \A r \in Requests :
    fate[r] = "heard" /\ ~crossed[r] /\ op[r] # "unbind" => answer[r] = "SUCCESS"

\* The environment entity holds exactly the result of the updates made, in their order, as
\* long as no update is written from a reading that another one has outdated.
FreshUpdatesKept ==
  \A x \in Repos :
    dependsOn[x] = ledger[x] \/ \E r \in Requests : repo[r] = x /\ stale[r] /\ fate[r] \in {"lost", "heard"}

\* The file that r has committed lies in its repository.
Waits(r) == slot[repo[r]][WrittenFile(r)] = r

\* What a client is told of a change it schedules on GitLab is what becomes of it, whoever
\* else works on the repository: a change that was committed, with the answer heard or
\* lost, waits for the pipeline until a job takes it, once and not again; one that was not
\* committed, or was answered with FAILURE, is never carried out.
ScheduledIsCarriedOut ==
  \A r \in Requests : op[r] \in Scheduling /\ HomeOf(r) = "GITLAB" =>
    IF fate[r] \in {"lost", "heard"}
      THEN answer[r] # "FAILURE" /\ (Waits(r) <=> r \notin taken)
      ELSE ~Waits(r) /\ r \notin taken

\* Every request that enters is answered, whatever throws on the way.
EveryRequestIsAnswered ==
  \A r \in Requests : phase[r] = "token" ~> answer[r] # "none"

\* Nothing failed while the request was served, no request of another git provider crossed
\* it, and it asked for a change.
Undisturbed(r) ==
  /\ phase[r] = "done" /\ fate[r] \in {"none", "heard"} /\ ~crossed[r]
  /\ op[r] \notin {"read", "platform"}

\* The two routes that cannot succeed: unbind-resource, whose handler throws once its commit
\* is made, and update-provider on GitLab, whose entity is never understood.
Doomed(r) == op[r] = "unbind" \/ (op[r] \in Updates /\ HomeOf(r) = "GITLAB")

\* A change that was neither disturbed nor crossed is answered with SUCCESS exactly when its
\* route is not one of those two, however its steps interleave with those of others.
OnlyTheDoomedFail == \A r \in Requests : Undisturbed(r) => (answer[r] = "SUCCESS" <=> ~Doomed(r))

\* What updateProvider's answer promises: each update of an environment's providers will
\* be complete, those of two requests that overlap included.
UpdatesKept == \A x \in Repos : dependsOn[x] = ledger[x]
===============================================================================
