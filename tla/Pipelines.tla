------------------------------- MODULE Pipelines -------------------------------
(***************************************************************************)
(* The GitLab pipelines of one application (src/backstage-reference/       *)
(* common/cicd): which pipelines the commits on main start, the jobs they  *)
(* run, and what the jobs push back to main.                               *)
(*                                                                         *)
(* A pipeline works on the files of ITS commit.  All its jobs but one push *)
(* HEAD:main without pulling, and GitLab refuses the push if main has      *)
(* moved since that commit.  The git-commit job of the EKS templates pulls *)
(* twice instead, and writes over the entity of the second pull with the   *)
(* one it read in the first.  What a job pushes with ci.skip starts no     *)
(* pipeline; what create-ci-stages pushes does.                            *)
(*                                                                         *)
(* An action is a whole job, at the moment its push is accepted or         *)
(* refused; git-commit takes two.  Retries by hand, pipelines started from *)
(* GitLab's page and the approval of manual jobs are left out: a manual    *)
(* job is one that nothing makes run.                                      *)
(***************************************************************************)
EXTENDS Naturals, Sequences, StageFiles

CONSTANTS Ids,          \* bounds the commits followed by a pipeline
          Provs,        \* environment providers
          Envs,         \* environments
          EnvOf,        \* the environment of each provider
          FirstEnv,     \* the environment the application is created in
          FileOrder,    \* the providers in the order of their properties files
          Resources,    \* what the application may be bound to
          PoliciesFor,  \* of each resource, which of "bind" and "unbind" come with policies
          NameBegins,   \* <<x, y>>: the name of x is the beginning of the name of y
          Templates,    \* the templates exercised
          Failing,      \* bounds the kinds of jobs that fail of themselves
          None

ASSUME EnvAssumption == EnvOf \in [Provs -> Envs] /\ FirstEnv \in Envs
ASSUME FileOrderAssumption ==
  FileOrder \in Seq(Provs) /\ \A p \in Provs : \E i \in 1 .. Len(FileOrder) : FileOrder[i] = p
ASSUME FailingAssumption == "creds" \notin Failing
ASSUME TemplatesAssumption == Templates \subseteq TemplateNames
ASSUME NoneAssumption == None \notin Ids \cup Provs \cup Resources

\* Names are searched as parts of a text.
Begins(x, y) == x = y \/ <<x, y>> \in NameBegins

Jobs == ({"stages", "binding", "destroy"} \X {None}) \cup (Kinds \X Provs)

StagesJobName == <<"stages", None>>
BindingJobName == <<"binding", None>>
DestroyJobName == <<"destroy", None>>

-------------------------------------------------------------------------------
VARIABLES
  template,  \* the APP_TEMPLATE_NAME of the application
  tree,      \* the files of main that matter
  head,      \* how many commits main has
  commit,    \* of each pipeline, the commit it was started for
  job,       \* of each pipeline, the status of each job
  seen,      \* of each git-commit job, the entity of its first pull
  creds,     \* which pipeline's AWS credentials the CI/CD variables of a provider hold
  \* what happened, for the properties
  ledger,    \* what the entity would be, had each change been one step, and made
  outdated   \* whether an entity was written that had changed since it was read

vars == <<template, tree, head, commit, job, seen, creds, ledger, outdated>>

Entity == [deps : SUBSET (Resources \cup Envs), details : SUBSET Provs]

\* providers: the properties files; jobs: the stage files, included in .gitlab-ci.yml;
\* stages: the environments whose stages it declares; binding, destroy: the pipeline that
\* the temporary properties file is for.
Tree == [providers : SUBSET Provs, jobs : SUBSET Provs, stages : Seq(Envs), entity : Entity,
         binding : Ids \cup {None}, destroy : Ids \cup {None}]

\* subject: the resource bound, or the provider destroyed; named: the environments that
\* create-ci-stages names in its title; sha: the length of main with this commit.
Commit == [title : Titles \cup {"none"}, subject : Resources \cup Provs \cup {None}, iac : BOOLEAN,
           named : SUBSET Envs, sha : Nat, tree : Tree]

Status == {"absent", "waiting", "reading", "done", "pushed", "failed", "refused"}

TypeOK ==
  /\ template \in Templates
  /\ tree \in Tree
  /\ head \in Nat
  /\ commit \in [Ids -> Commit]
  /\ job \in [Ids -> [Jobs -> Status]]
  /\ seen \in [Ids -> [Provs -> Entity \cup {None}]]
  /\ creds \in [Provs -> Ids \cup {None}]
  /\ ledger \in Entity
  /\ outdated \in BOOLEAN

-------------------------------------------------------------------------------
(* The pipeline of a commit. *)

Named(c, p) == \E e \in c.named : Begins(EnvOf[p], e)

\* create-ci-stages runs for a new application only.
SlipStartsJob(c, j) ==
  \/ j = StagesJobName /\ c.title = "initial"
  \/ j = BindingJobName /\ c.title \in {"bind", "unbind"}
  \/ j = DestroyJobName /\ c.title = "destroy" /\ template = "tfNodejs"
  \/ j[2] \in c.tree.jobs /\ Includes(template, j[1], c.title, c.iac, Named(c, j[2]))

StartsJob(c, j) ==
  \/ j = StagesJobName /\ c.title \in {"initial", "generate"}
  \/ j = BindingJobName /\ c.title \in {"bind", "unbind"}
  \/ j = DestroyJobName /\ c.title = "destroy" /\ template = "tfNodejs"
  \/ j[2] \in c.tree.jobs /\ Includes(template, j[1], c.title, c.iac, Named(c, j[2]))

\* GitLab starts nothing when a job's stage is not declared or a needed job is left out.
Valid(c) ==
  /\ \A p \in c.tree.jobs : \E i \in DOMAIN c.tree.stages : c.tree.stages[i] = EnvOf[p]
  /\ c.tree.jobs # {} => NeedsHold(template, c.title)

JobsOfCommit(c) ==
  [j \in Jobs |-> IF Valid(c) /\ StartsJob(c, j) THEN "waiting" ELSE "absent"]

\* The pipelines not started yet are those of no commit.
Started(n) == commit[n].title # "none"
Free == {n \in Ids : ~Started(n)}
NextId == CHOOSE n \in Free : TRUE

Start(n, c) ==
  /\ commit' = [commit EXCEPT ![n] = c]
  /\ job' = [job EXCEPT ![n] = JobsOfCommit(c)]

FirstProvs == {p \in Provs : EnvOf[p] = FirstEnv}

\* A new application, whose first pipeline is to create the stages.
NewTree ==
  [providers |-> FirstProvs, jobs |-> {}, stages |-> <<FirstEnv>>,
   entity |-> [deps |-> {}, details |-> {}], binding |-> None, destroy |-> None]

NewCommit ==
  [title |-> "initial", subject |-> None, iac |-> TRUE, named |-> {}, sha |-> 1, tree |-> NewTree]

NoCommit == [NewCommit EXCEPT !.title = "none"]

\* An application that has been deployed and whose pipelines are over.
DeployedTree ==
  [[NewTree EXCEPT !.jobs = FirstProvs]
     EXCEPT !.entity = [deps |-> {FirstEnv}, details |-> FirstProvs]]

FirstId == CHOOSE n \in Ids : TRUE

Init ==
  /\ template \in Templates
  /\ commit = [n \in Ids |-> IF n = FirstId THEN NewCommit ELSE NoCommit]
  /\ \E new \in BOOLEAN :
       /\ tree = IF new THEN NewTree ELSE DeployedTree
       /\ head = IF new THEN 1 ELSE 2
       /\ job = [n \in Ids |-> [j \in Jobs |->
                   IF n = FirstId /\ j = StagesJobName
                   THEN IF new THEN "waiting" ELSE "pushed" ELSE "absent"]]
  /\ seen = [n \in Ids |-> [p \in Provs |-> None]]
  /\ creds = [p \in Provs |-> None]
  /\ ledger = tree.entity
  /\ outdated = FALSE

-------------------------------------------------------------------------------
(* Commits from outside: of the portal through GitLab's API, which works on  *)
(* main as it is, and of people.                                             *)

Land(title, subject, iac, newTree) ==
  /\ Free # {}
  /\ tree' = newTree
  /\ head' = head + 1
  /\ Start(NextId, [title |-> title, subject |-> subject, iac |-> iac, named |-> {},
                    sha |-> head + 1, tree |-> newTree])
  /\ UNCHANGED <<template, seen, creds, ledger, outdated>>

\* promote-app creates the properties files of an environment's providers.
Promote ==
  \E e \in Envs :
    LET new == {p \in Provs : EnvOf[p] = e} IN
    /\ new # {} /\ new \cap tree.providers = {}
    /\ Land("generate", None, FALSE, [tree EXCEPT !.providers = @ \cup new])

\* bind-resource and unbind-resource create the temporary file, which must not be there,
\* and create or delete a file in .iac for each policy that the card sends.
Bind ==
  /\ tree.binding = None
  /\ \E r \in Resources, title \in {"bind", "unbind"} :
       Land(title, r, title \in PoliciesFor[r], [tree EXCEPT !.binding = NextId])

\* delete-tf-provider, for an application made with Terraform.
Destroy ==
  /\ template = "tfNodejs"
  /\ tree.destroy = None
  /\ \E p \in tree.providers : Land("destroy", p, FALSE, [tree EXCEPT !.destroy = NextId])

\* A developer pushes.
Develop == \E iac \in BOOLEAN : Land("push", None, iac, tree)

-------------------------------------------------------------------------------
(* When a job is run. *)

\* The stages in the order of .gitlab-ci.yml: env-creation, then two for each environment.
Rank(t, j) ==
  IF j[2] = None THEN 0
  ELSE LET place == CHOOSE i \in DOMAIN t.stages : t.stages[i] = EnvOf[j[2]]
       IN IF j[1] = "iac" THEN 2 * place - 1 ELSE 2 * place

Over(n, j) == job[n][j] \in {"absent", "done", "pushed"}

\* A job that needs others waits for these only, any other job for the earlier stages.
Ready(n, j) ==
  /\ job[n][j] = "waiting"
  /\ LET needed == IF j[2] = None THEN {} ELSE StageFile[template][j[1]] IN
     IF needed # {} THEN \A kind \in needed : Over(n, <<kind, j[2]>>)
     ELSE \A other \in Jobs :
            ~Over(n, other) => Rank(commit[n].tree, other) >= Rank(commit[n].tree, j)

Becomes(n, j, status) == job' = [job EXCEPT ![n][j] = status]

\* The push is forced.
SlipPushes(n, j, newTree) ==
  /\ tree' = newTree
  /\ head' = head + 1
  /\ Becomes(n, j, "pushed")

\* The push of HEAD:main without a pull.
Pushes(n, j, newTree) ==
  /\ commit[n].sha = head
  /\ tree' = newTree
  /\ head' = head + 1
  /\ Becomes(n, j, "pushed")

IsRefused(n, j) ==
  /\ commit[n].sha # head
  /\ Becomes(n, j, "refused")
  /\ UNCHANGED <<tree, head, ledger>>

-------------------------------------------------------------------------------
(* create-ci-stages *)

\* An environment is staged when a stage of one whose name begins with its own is there.
AddStage(stages, p) ==
  IF \E i \in DOMAIN stages : Begins(EnvOf[p], stages[i]) THEN stages
  ELSE Append(stages, EnvOf[p])

\* The properties files are taken one by one, in the order of their names.
StagesFor(files, stages) ==
  LET after[i \in 0 .. Len(FileOrder)] ==
        IF i = 0 THEN stages
        ELSE IF FileOrder[i] \in files THEN AddStage(after[i - 1], FileOrder[i])
        ELSE after[i - 1]
  IN after[Len(FileOrder)]

\* The stages are added for the providers that have them.
SlipStaged(t) == StagesFor(t.jobs, t.stages)

Staged(t) == StagesFor(t.providers, t.stages)

\* ADDED_STAGE: one environment, or "multiple", which every rule matches.
AddedEnvs(t) ==
  LET added == {EnvOf[p] : p \in t.providers \ t.jobs}
  IN IF \E e \in added : added = {e} THEN added ELSE IF added = {} THEN {} ELSE Envs

\* It is pushed without ci.skip, and starts a pipeline.
CreateCiStages(n) ==
  /\ Ready(n, StagesJobName)
  /\ LET t == commit[n].tree
         newTree == [[t EXCEPT !.stages = Staged(t)] EXCEPT !.jobs = t.providers]
         c == [title |-> "added", subject |-> None, iac |-> FALSE, named |-> AddedEnvs(t),
               sha |-> head + 1, tree |-> newTree]
     IN \/ /\ commit[n].sha = head
           /\ tree' = newTree
           /\ head' = head + 1
           /\ IF Free = {}
              THEN Becomes(n, StagesJobName, "pushed") /\ UNCHANGED commit
              ELSE /\ commit' = [commit EXCEPT ![NextId] = c]
                   /\ job' = [job EXCEPT ![n][StagesJobName] = "pushed",
                                         ![NextId] = JobsOfCommit(c)]
           /\ UNCHANGED ledger
        \/ IsRefused(n, StagesJobName) /\ UNCHANGED commit
  /\ UNCHANGED <<template, seen, creds, outdated>>

-------------------------------------------------------------------------------
(* The changes of the entity, and the jobs that make them. *)

WithEntity(t, entity) == [t EXCEPT !.entity = entity]

AlreadyDependsOn(entity, x) == \E d \in entity.deps : Begins(x, d)

WithDependency(entity, x) == [entity EXCEPT !.deps = @ \cup {x}]

DependsOn(entity, x) ==
  IF AlreadyDependsOn(entity, x) THEN entity ELSE WithDependency(entity, x)

NoLonger(entity, x) == [entity EXCEPT !.deps = @ \ {x}]

\* The provider is written as the dependency.
SlipDetailed(entity, p) == DependsOn([entity EXCEPT !.details = @ \cup {p}], p)

\* The stack's outputs are stored under the provider, the environment as a dependency.
Detailed(entity, p) == DependsOn([entity EXCEPT !.details = @ \cup {p}], EnvOf[p])

BoundOrNot(c, entity) ==
  IF c.title = "bind" THEN DependsOn(entity, c.subject) ELSE NoLonger(entity, c.subject)

\* What the two are to do, for the ledger.
ToDetail(entity, p) == WithDependency([entity EXCEPT !.details = @ \cup {p}], EnvOf[p])

ToBindOrNot(c, entity) ==
  IF c.title = "bind" THEN WithDependency(entity, c.subject) ELSE NoLonger(entity, c.subject)

\* The temporary file is left where it is.
SlipBindResource(n) ==
  /\ Ready(n, BindingJobName)
  /\ LET c == commit[n] IN
     \/ /\ Pushes(n, BindingJobName, WithEntity(c.tree, BoundOrNot(c, c.tree.entity)))
        /\ ledger' = ToBindOrNot(c, ledger)
     \/ IsRefused(n, BindingJobName)
  /\ UNCHANGED <<template, commit, seen, creds, outdated>>

\* bind-resource.sh and unbind-resource.sh
BindResource(n) ==
  /\ Ready(n, BindingJobName)
  /\ LET c == commit[n] IN
     \/ /\ Pushes(n, BindingJobName,
                  [WithEntity(c.tree, BoundOrNot(c, c.tree.entity)) EXCEPT !.binding = None])
        /\ ledger' = ToBindOrNot(c, ledger)
     \/ IsRefused(n, BindingJobName)
  /\ UNCHANGED <<template, commit, seen, creds, outdated>>

\* destroy-tf.sh
DestroyTf(n) ==
  /\ Ready(n, DestroyJobName)
  /\ LET c == commit[n] IN
     \/ /\ Pushes(n, DestroyJobName,
                  [WithEntity(c.tree, NoLonger(c.tree.entity, EnvOf[c.subject]))
                     EXCEPT !.destroy = None])
        /\ ledger' = NoLonger(ledger, EnvOf[c.subject])
     \/ IsRefused(n, DestroyJobName)
  /\ UNCHANGED <<template, commit, seen, creds, outdated>>

\* The push is of main as it is now.
SlipDeployIac(n, p) ==
  LET j == <<"iac", p>> IN
  /\ Ready(n, j)
  /\ tree' = WithEntity(tree, Detailed(tree.entity, p))
  /\ ledger' = ToDetail(ledger, p)
  /\ head' = head + 1
  /\ Becomes(n, j, "pushed")
  /\ UNCHANGED <<template, commit, seen, creds, outdated>>

\* The stack is deployed.  Its outputs are pushed, unless the entity had them or the
\* template leaves this to git-commit.
DeployIac(n, p) ==
  LET j == <<"iac", p>>
      entity == commit[n].tree.entity
  IN /\ Ready(n, j)
     /\ IF template \in EksTemplates \/ Detailed(entity, p) = entity
        THEN Becomes(n, j, "done") /\ UNCHANGED <<tree, head, ledger>>
        ELSE \/ /\ Pushes(n, j, WithEntity(commit[n].tree, Detailed(entity, p)))
                /\ ledger' = ToDetail(ledger, p)
             \/ IsRefused(n, j)
     /\ UNCHANGED <<template, commit, seen, creds, outdated>>

-------------------------------------------------------------------------------
(* The jobs of the environment's own stage. *)

\* The variables are written over.
SlipGetAwsCreds(n, p) ==
  LET j == <<"creds", p>> IN
  /\ Ready(n, j)
  /\ creds' = [creds EXCEPT ![p] = n] /\ Becomes(n, j, "done")
  /\ UNCHANGED <<template, tree, head, commit, seen, ledger, outdated>>

\* The credentials are created as CI/CD variables of the project, which fails if they are
\* there already; a failure on the way may leave some of them.
GetAwsCreds(n, p) ==
  LET j == <<"creds", p>> IN
  /\ Ready(n, j)
  /\ \/ creds[p] = None /\ creds' = [creds EXCEPT ![p] = n] /\ Becomes(n, j, "done")
     \/ creds[p] = None /\ creds' = [creds EXCEPT ![p] = n] /\ Becomes(n, j, "failed")
     \/ Becomes(n, j, "failed") /\ UNCHANGED creds
  /\ UNCHANGED <<template, tree, head, commit, seen, ledger, outdated>>

\* build-image and sam-package touch nothing that is modelled.
Build(n, p) ==
  /\ \E kind \in {"build", "sam"} :
       Ready(n, <<kind, p>>) /\ Becomes(n, <<kind, p>>, "done")
  /\ UNCHANGED <<template, tree, head, commit, seen, creds, ledger, outdated>>

DeleteAwsCreds(n, p) ==
  LET j == <<"clean", p>> IN
  /\ Ready(n, j)
  /\ creds' = [creds EXCEPT ![p] = None]
  /\ Becomes(n, j, "done")
  /\ UNCHANGED <<template, tree, head, commit, seen, ledger, outdated>>

\* git-commit takes the entity of main and deploys the application to Kubernetes.
CommitReads(n, p) ==
  LET j == <<"commit", p>> IN
  /\ Ready(n, j)
  /\ seen' = [seen EXCEPT ![n][p] = tree.entity]
  /\ Becomes(n, j, "reading")
  /\ UNCHANGED <<template, tree, head, commit, creds, ledger, outdated>>

\* It pulls again and writes the entity it took over the one that is there.  Its
\* after_script deletes the credentials.
CommitWrites(n, p) ==
  LET j == <<"commit", p>>
      written == Detailed(seen[n][p], p)
  IN /\ job[n][j] = "reading"
     /\ IF written = tree.entity
        THEN Becomes(n, j, "done") /\ UNCHANGED <<tree, head>>
        ELSE /\ tree' = WithEntity(tree, written)
             /\ head' = head + 1
             /\ Becomes(n, j, "pushed")
     /\ ledger' = ToDetail(ledger, p)
     /\ outdated' = (outdated \/ seen[n][p] # tree.entity)
     /\ seen' = [seen EXCEPT ![n][p] = None]
     /\ creds' = [creds EXCEPT ![p] = None]
     /\ UNCHANGED <<template, commit>>

\* A job fails; git-commit's after_script runs all the same.
Fails(n, j) ==
  /\ j[1] \in Failing
  /\ Ready(n, j) \/ job[n][j] = "reading"
  /\ Becomes(n, j, "failed")
  /\ IF j[1] = "commit"
     THEN /\ creds' = [creds EXCEPT ![j[2]] = None]
          /\ seen' = [seen EXCEPT ![n][j[2]] = None]
     ELSE UNCHANGED <<creds, seen>>
  /\ UNCHANGED <<template, tree, head, commit, ledger, outdated>>

Works(n) ==
  \/ CreateCiStages(n) \/ BindResource(n) \/ DestroyTf(n)
  \/ \E p \in Provs :
       \/ DeployIac(n, p) \/ GetAwsCreds(n, p) \/ Build(n, p) \/ DeleteAwsCreds(n, p)
       \/ CommitReads(n, p) \/ CommitWrites(n, p)
  \/ \E j \in Jobs : Fails(n, j)

Next ==
  \/ Promote \/ Bind \/ Destroy \/ Develop
  \/ \E n \in Ids : Works(n)

\* A runner takes up create-ci-stages, which is never manual.
Fairness == \A n \in Ids : WF_vars(CreateCiStages(n))

Spec == Init /\ [][Next]_vars

FairSpec == Spec /\ Fairness

-------------------------------------------------------------------------------
(* Properties. *)

PlainlyPushed(n) == {j \in Jobs : job[n][j] = "pushed" /\ j[1] # "commit"}

\* Of all the jobs of one pipeline that push without pulling, at most one ever gets its
\* result onto main: where an environment has two providers, the second is refused.
OneRecordPerPipeline ==
  \A n \in Ids : \A j \in PlainlyPushed(n) : \A k \in PlainlyPushed(n) : j = k

\* e has what l has, but for dependencies whose name is the beginning of another's.
HoldsAllOf(e, l) ==
  /\ e.details = l.details
  /\ e.deps \subseteq l.deps
  /\ \A x \in l.deps \ e.deps : \E names \in NameBegins : x = names[1]

\* The entity holds what every pushed job was to change, as if each had been one step,
\* unless a git-commit job has written over a change it had not seen: the jobs lose no
\* other change, but the dependencies whose name is found in that of another one.
EntityKept == outdated \/ HoldsAllOf(tree.entity, ledger)

\* The temporary file of a binding or a destruction is on main exactly until its own job
\* has pushed: no other job removes it, none brings it back, and when its job fails, is
\* refused or is never started it stays, and every later request is rejected.
ScheduledUntilPushed ==
  \A n \in Ids :
    /\ commit[n].title \in {"bind", "unbind"} =>
         (tree.binding = n <=> job[n][BindingJobName] # "pushed")
    /\ commit[n].title = "destroy" =>
         (tree.destroy = n <=> job[n][DestroyJobName] # "pushed")

\* What the portal says of a Terraform application (aws-platform.ts:218) and the tests of
\* deletion expect (tests.md:71, E16): once the destruction of what a provider has deployed is
\* scheduled, a pipeline carries it out, that is, it has the job that runs destroy-tf.sh.
DestructionIsStarted ==
  \A n \in Ids : commit[n].title = "destroy" /\ commit[n].subject \in commit[n].tree.entity.details
                 => job[n][DestroyJobName] # "absent"

\* A provider's stage file names stages that .gitlab-ci.yml declares, without which no
\* pipeline of the repository starts any more, unless the name of its environment is the
\* beginning of another's.
OnlyOverlapBreaksStages ==
  \A p \in tree.jobs : \E i \in DOMAIN tree.stages :
    tree.stages[i] = EnvOf[p] \/ <<EnvOf[p], tree.stages[i]>> \in NameBegins

\* The job that takes the credentials of a provider away again.
CleanerStatus(n, p) ==
  IF "commit" \in JobsOf(template) THEN job[n][<<"commit", p>>] ELSE job[n][<<"clean", p>>]

\* The CI/CD variables work as a lock: a pipeline that has stored its credentials keeps
\* them until its own last job, whatever other pipelines run, and they outlast the
\* pipeline only if one of its jobs has failed.
CredentialsAreOwn ==
  \A n \in Ids, p \in Provs :
    LET stored == job[n][<<"creds", p>>]
        cleaner == CleanerStatus(n, p)
    IN /\ stored = "done" /\ cleaner \in {"waiting", "reading"} => creds[p] = n
       /\ creds[p] = n =>
            \/ stored = "failed"
            \/ stored = "done" /\ cleaner \in {"waiting", "reading"}
            \/ stored = "done" /\ cleaner = "failed" /\ "clean" \in JobsOf(template)

\* The pipeline that was to stage the provider did not: GitLab started nothing for its
\* commit, or its create-ci-stages failed or was refused.
NotStagedBy(n, p) ==
  /\ Started(n)
  /\ p \in commit[n].tree.providers \ commit[n].tree.jobs
  /\ ~Valid(commit[n]) \/ job[n][StagesJobName] \in {"failed", "refused"}

\* A provider whose properties file is on main gets its stage file, and with it its jobs,
\* unless the pipeline that was to write it was broken, failed or refused: nothing tries
\* a second time.
PromotedIsStaged ==
  \A p \in Provs :
    p \in tree.providers ~> (p \in tree.jobs \/ \E n \in Ids : NotStagedBy(n, p))
===============================================================================
