---------------------------- MODULE PipelinesProofs ----------------------------
(***************************************************************************)
(* The pipelines of an application, proved for any number of pipelines,    *)
(* providers, environments and resources and for every template: at most   *)
(* one plain push of a pipeline is accepted, the entity keeps every change *)
(* but those git-commit has not seen, a temporary file stays until its own *)
(* job has pushed, and the credentials of a pipeline are its own.  Of the  *)
(* stage files and the rules of their jobs, whatever the template and the  *)
(* title: the pipelines GitLab refuses for a missing job are those that    *)
(* are to destroy an infrastructure, of the templates with                 *)
(* delete-aws-creds.                                                       *)
(***************************************************************************)
EXTENDS Pipelines, WellFoundedInduction, TLAPS

-------------------------------------------------------------------------------
(* The templates and the jobs of their stage files. *)

\* The templates whose image is built and deployed with credentials from CI/CD variables,
\* those that do so through git-commit, and the rest.
Plain == {"nodejs", "nodejsRds", "pythonFlask", "tfNodejs"}
Kubernetes == {"eksNodejsRds", "pythonFlaskEks"}
Others == {"springboot", "springbootEks", "serverlessRestApi", "generic"}

\* These are all the templates.
LEMMA AllTemplates == TemplateNames = Plain \cup Kubernetes \cup Others
BY DEF TemplateNames, StageFile, Plain, Kubernetes, Others

-------------------------------------------------------------------------------
(* The stage files, by kind of template. *)

\* The scripts of the plain templates write the same jobs.
LEMMA PlainFile == ASSUME NEW t \in Plain PROVE StageFile[t] = ExampleNodejs
<1>1. /\ StageFile["nodejs"] = ExampleNodejs /\ StageFile["nodejsRds"] = ExampleNodejsRds
      /\ StageFile["pythonFlask"] = ExamplePythonFlask /\ StageFile["tfNodejs"] = ExampleTfNodejs
  BY DEF StageFile
<1>2. /\ ExampleNodejsRds = ExampleNodejs /\ ExamplePythonFlask = ExampleNodejs
      /\ ExampleTfNodejs = ExampleNodejs
  BY DEF ExampleNodejs, ExampleNodejsRds, ExamplePythonFlask, ExampleTfNodejs
<1> QED BY <1>1, <1>2 DEF Plain

\* So do those of the two Kubernetes templates.
LEMMA KubernetesFile == ASSUME NEW t \in Kubernetes PROVE StageFile[t] = ExampleEksNodejsRds
BY DEF StageFile, Kubernetes, ExampleEksNodejsRds, ExamplePythonFlaskEks

\* The others have one each.
LEMMA OtherFiles ==
  /\ StageFile["springboot"] = ExampleSpringboot
  /\ StageFile["springbootEks"] = ExampleSpringbootEks
  /\ StageFile["serverlessRestApi"] = ExampleServerlessRestApi
  /\ StageFile["generic"] = ExampleGeneric
BY DEF StageFile

\* The jobs of the plain templates.
LEMMA PlainJobs ==
  ASSUME NEW t \in Plain PROVE JobsOf(t) = {"iac", "creds", "build", "deploy", "clean"}
BY PlainFile DEF JobsOf, ExampleNodejs

\* The jobs of the Kubernetes templates.
LEMMA KubernetesJobs ==
  ASSUME NEW t \in Kubernetes PROVE JobsOf(t) = {"iac", "creds", "build", "commit"}
BY KubernetesFile DEF JobsOf, ExampleEksNodejsRds

\* The jobs of the others.
LEMMA OtherJobs ==
  /\ JobsOf("springboot") = {"iac", "build", "deploy"}
  /\ JobsOf("springbootEks") = {"iac", "build", "commit"}
  /\ JobsOf("serverlessRestApi") = {"iac", "sam"}
  /\ JobsOf("generic") = {"iac"}
BY OtherFiles
   DEF JobsOf, ExampleSpringboot, ExampleSpringbootEks, ExampleServerlessRestApi, ExampleGeneric

\* Every job is of one of the kinds.
LEMMA JobsAreKinds == ASSUME NEW t \in TemplateNames PROVE JobsOf(t) \subseteq Kinds
BY AllTemplates, PlainJobs, KubernetesJobs, OtherJobs DEF Others, Kinds

\* Only these templates get credentials.
LEMMA WhoHasCreds ==
  ASSUME NEW t \in TemplateNames, "creds" \in JobsOf(t) PROVE t \in Plain \cup Kubernetes
BY AllTemplates, OtherJobs DEF Others

\* Only the plain templates have delete-aws-creds.
LEMMA WhoCleans == ASSUME NEW t \in TemplateNames, "clean" \in JobsOf(t) PROVE t \in Plain
BY AllTemplates, KubernetesJobs, OtherJobs DEF Others, Kubernetes

\* What the jobs of a plain template need.
LEMMA PlainNeeds ==
  ASSUME NEW t \in Plain
  PROVE  /\ StageFile[t]["build"] = {"creds"} /\ StageFile[t]["clean"] = {"build"}
         /\ StageFile[t]["deploy"] = {"build"}
         /\ StageFile[t]["creds"] = {} /\ StageFile[t]["iac"] = {}
BY PlainFile DEF ExampleNodejs

\* What the jobs of a Kubernetes template need.
LEMMA KubernetesNeeds ==
  ASSUME NEW t \in Kubernetes
  PROVE  /\ StageFile[t]["build"] = {"creds"} /\ StageFile[t]["commit"] = {"build"}
         /\ StageFile[t]["creds"] = {} /\ StageFile[t]["iac"] = {}
BY KubernetesFile DEF ExampleEksNodejsRds

-------------------------------------------------------------------------------
(* The pipelines GitLab refuses. *)

\* The pipeline of a "Destroy TF Infrastructure" commit of a plain template has
\* delete-aws-creds, whose rule does not exclude the title, but not build-image.
LEMMA DestroyNeedsFail == \A t \in Plain : ~NeedsHold(t, "destroy")
<1> SUFFICES ASSUME NEW t \in Plain PROVE ~NeedsHold(t, "destroy") OBVIOUS
<1>1. Includes(t, "clean", "destroy", FALSE, FALSE) BY PlainJobs DEF Includes, CleanRule
<1>2. ~Includes(t, "build", "destroy", FALSE, FALSE)
  BY PlainJobs DEF Includes, KanikoBuildRule
<1> QED BY <1>1, <1>2, PlainJobs, PlainNeeds DEF NeedsHold

\* No other title leaves out a job that an included one needs, whatever the template.
LEMMA OtherNeedsHold ==
  \A t \in TemplateNames, title \in Titles :
    NeedsHold(t, title) \/ (t \in Plain /\ title = "destroy")
<1> SUFFICES ASSUME NEW t \in TemplateNames, NEW title \in Titles,
                    t \notin Plain \/ title # "destroy",
                    NEW kind \in JobsOf(t), Includes(t, kind, title, FALSE, FALSE),
                    NEW needed \in StageFile[t][kind]
             PROVE  Includes(t, needed, title, FALSE, FALSE)
  BY DEF NeedsHold
<1>1. CASE t \in Plain
  <2>1. \/ kind = "build" /\ needed = "creds"
        \/ kind \in {"clean", "deploy"} /\ needed = "build"
    <3>1. kind \in {"iac", "creds", "build", "deploy", "clean"} BY <1>1, PlainJobs
    <3>2. CASE kind \in {"iac", "creds"} BY <1>1, <3>2, PlainNeeds
    <3>3. CASE kind = "build" BY <1>1, <3>3, PlainNeeds
    <3>4. CASE kind = "deploy" BY <1>1, <3>4, PlainNeeds
    <3>5. CASE kind = "clean" BY <1>1, <3>5, PlainNeeds
    <3> QED BY <3>1, <3>2, <3>3, <3>4, <3>5
  <2>2. CASE needed = "creds"
    BY <1>1, <2>1, <2>2, PlainJobs DEF Includes, CredsRule, KanikoBuildRule
  <2>3. CASE needed = "build"
    BY <1>1, <2>1, <2>3, PlainJobs DEF Includes, DeployRule, CleanRule, KanikoBuildRule
  <2> QED BY <2>1, <2>2, <2>3
<1>2. CASE t \in Kubernetes
  <2>1. \/ kind = "build" /\ needed = "creds"
        \/ kind = "commit" /\ needed = "build"
    <3>1. kind \in {"iac", "creds", "build", "commit"} BY <1>2, KubernetesJobs
    <3>2. CASE kind \in {"iac", "creds"} BY <1>2, <3>2, KubernetesNeeds
    <3>3. CASE kind = "build" BY <1>2, <3>3, KubernetesNeeds
    <3>4. CASE kind = "commit" BY <1>2, <3>4, KubernetesNeeds
    <3> QED BY <3>1, <3>2, <3>3, <3>4
  <2>2. CASE needed = "creds"
    BY <1>2, <2>1, <2>2, KubernetesJobs DEF Includes, CredsRule, KanikoBuildRule
  <2>3. CASE needed = "build"
    BY <1>2, <2>1, <2>3, KubernetesJobs DEF Includes, CommitRule, KanikoBuildRule
  <2> QED BY <2>1, <2>2, <2>3
<1>3. CASE t \in Others
  <2>1. /\ needed = "build" /\ kind \in {"deploy", "commit"}
        /\ "build" \in JobsOf(t) /\ "creds" \notin JobsOf(t)
    BY <1>3, OtherJobs, OtherFiles
       DEF Others, ExampleSpringboot, ExampleSpringbootEks, ExampleServerlessRestApi, ExampleGeneric
  <2> QED BY <2>1 DEF Includes, DeployRule, CommitRule, SpringbootBuildRule
<1> QED BY <1>1, <1>2, <1>3, AllTemplates

\* Of all pipelines with stage files, whatever the template and the title, GitLab refuses for
\* a needed job exactly those that are to destroy an infrastructure, of the templates with
\* delete-aws-creds: nodejs, nodejsRds, pythonFlask and tfNodejs, but neither those of EKS
\* nor the ones without credentials (.gitlab-ci-aws-image-kaniko.yml:53-54).
THEOREM RefusedForNeeds ==
  /\ {t \in TemplateNames : "clean" \in JobsOf(t)}
       = {"nodejs", "nodejsRds", "pythonFlask", "tfNodejs"}
  /\ \A t \in TemplateNames, title \in Titles :
       ~NeedsHold(t, title) <=> title = "destroy" /\ "clean" \in JobsOf(t)
<1>1. \A t \in TemplateNames : "clean" \in JobsOf(t) <=> t \in Plain
  BY WhoCleans, PlainJobs
<1>2. Plain \subseteq TemplateNames
  BY AllTemplates
<1>3. {t \in TemplateNames : "clean" \in JobsOf(t)} = Plain
  BY <1>1, <1>2
<1>4. ASSUME NEW t \in TemplateNames, NEW title \in Titles
      PROVE  ~NeedsHold(t, title) <=> title = "destroy" /\ t \in Plain
  <2>1. CASE title = "destroy" /\ t \in Plain
    BY <2>1, DestroyNeedsFail
  <2>2. CASE ~(title = "destroy" /\ t \in Plain)
    BY <2>2, OtherNeedsHold
  <2> QED BY <2>1, <2>2
<1> QED BY <1>1, <1>3, <1>4 DEF Plain

-------------------------------------------------------------------------------
(* The files of main. *)

\* The files of main have these fields, whatever the fields hold.
IsTree(t) ==
  t = [providers |-> t.providers, jobs |-> t.jobs, stages |-> t.stages,
       entity |-> t.entity, binding |-> t.binding, destroy |-> t.destroy]

\* Writing the entity leaves the other files alone.
LEMMA EntitySet ==
  ASSUME NEW t, IsTree(t), NEW e
  PROVE  LET u == [t EXCEPT !.entity = e] IN
         /\ IsTree(u)
         /\ u.entity = e /\ u.binding = t.binding /\ u.destroy = t.destroy
         /\ u.jobs = t.jobs /\ u.providers = t.providers
BY DEF IsTree

\* So does writing the temporary file of a binding.
LEMMA BindingCleared ==
  ASSUME NEW t, IsTree(t), NEW b
  PROVE  LET u == [t EXCEPT !.binding = b] IN
         /\ IsTree(u)
         /\ u.entity = t.entity /\ u.binding = b /\ u.destroy = t.destroy
         /\ u.jobs = t.jobs
BY DEF IsTree

\* So does writing the temporary file of a destruction.
LEMMA DestroyCleared ==
  ASSUME NEW t, IsTree(t), NEW b
  PROVE  LET u == [t EXCEPT !.destroy = b] IN
         /\ IsTree(u)
         /\ u.entity = t.entity /\ u.binding = t.binding /\ u.destroy = b
         /\ u.jobs = t.jobs
BY DEF IsTree

\* So does writing properties files.
LEMMA FilesAdded ==
  ASSUME NEW t, IsTree(t), NEW ps
  PROVE  LET u == [t EXCEPT !.providers = ps] IN
         /\ IsTree(u)
         /\ u.entity = t.entity /\ u.binding = t.binding /\ u.destroy = t.destroy
         /\ u.jobs = t.jobs
BY DEF IsTree

\* So does writing stage files.
LEMMA JobsSet ==
  ASSUME NEW t, IsTree(t), NEW ps
  PROVE  LET u == [t EXCEPT !.jobs = ps] IN
         IsTree(u) /\ u.entity = t.entity /\ u.binding = t.binding /\ u.destroy = t.destroy
BY DEF IsTree

\* So does writing the stages of .gitlab-ci.yml.
LEMMA StagesSet ==
  ASSUME NEW t, IsTree(t), NEW ss
  PROVE  LET u == [t EXCEPT !.stages = ss] IN
         IsTree(u) /\ u.entity = t.entity /\ u.binding = t.binding /\ u.destroy = t.destroy
BY DEF IsTree

-------------------------------------------------------------------------------
(* What one job, or one commit, changes. *)

\* A job that ends changes its own status only.
LEMMA BecomesFacts ==
  ASSUME job \in [Ids -> [Jobs -> Status]], NEW n \in Ids, NEW j \in Jobs,
         NEW st \in Status, Becomes(n, j, st)
  PROVE  /\ job' \in [Ids -> [Jobs -> Status]]
         /\ job'[n][j] = st
         /\ \A m \in Ids, k \in Jobs : m # n \/ k # j => job'[m][k] = job[m][k]
<1> job' = [job EXCEPT ![n] = [job[n] EXCEPT ![j] = st]] BY DEF Becomes
<1> [job[n] EXCEPT ![j] = st] \in [Jobs -> Status] OBVIOUS
<1> QED OBVIOUS

\* A pipeline that starts changes its own commit and jobs only.
LEMMA StartFacts ==
  ASSUME job \in [Ids -> [Jobs -> Status]], DOMAIN commit = Ids,
         NEW n \in Ids, NEW c, Start(n, c)
  PROVE  /\ DOMAIN commit' = Ids
         /\ commit'[n] = c
         /\ \A m \in Ids \ {n} : commit'[m] = commit[m]
         /\ job' \in [Ids -> [Jobs -> Status]]
         /\ \A j \in Jobs : job'[n][j] = JobsOfCommit(c)[j]
         /\ \A m \in Ids \ {n} : job'[m] = job[m]
<1> JobsOfCommit(c) \in [Jobs -> Status]
  BY DEF JobsOfCommit, Status
<1> QED BY DEF Start

-------------------------------------------------------------------------------
(* The invariant. *)

\* What the variables are, as far as the proofs look into them: neither what the stages
\* are, which a fold computes, nor what the entity holds.
Shape ==
  /\ template \in TemplateNames
  /\ head \in Nat
  /\ DOMAIN commit = Ids
  /\ job \in [Ids -> [Jobs -> Status]]
  /\ creds \in [Provs -> Ids \cup {None}]
  /\ IsTree(tree)

\* A commit at the head of main has the files of main.
OnMain ==
  \A n \in Ids : Started(n) =>
    /\ commit[n].sha \in Nat /\ commit[n].sha <= head
    /\ commit[n].sha = head => commit[n].tree = tree
    /\ IsTree(commit[n].tree)

\* A pipeline has exactly the jobs that the rules give its commit.
JobsStarted ==
  \A n \in Ids, j \in Jobs :
    job[n][j] # "absent" <=> Started(n) /\ Valid(commit[n]) /\ StartsJob(commit[n], j)

\* A plain push leaves the commit it was made from behind.
PushedIsPast ==
  \A n \in Ids, j \in Jobs :
    job[n][j] = "pushed" /\ j[1] # "commit" => commit[n].sha < head

\* The invariant all the others are proved from.
Inv == Shape /\ OnMain /\ JobsStarted /\ PushedIsPast

\* What every step of a job does.
JobStep(n, j, status) ==
  /\ job[n][j] \in {"waiting", "reading"}
  /\ status \in Status \ {"absent", "waiting"}
  /\ Becomes(n, j, status)
  /\ UNCHANGED <<template, commit>>
  /\ creds' \in [Provs -> Ids \cup {None}]
  /\ \/ head' = head /\ tree' = tree
     \/ head' = head + 1 /\ IsTree(tree')
  /\ status = "pushed" /\ j[1] # "commit" => commit[n].sha = head /\ head' = head + 1

\* What every commit from outside does.
Arrival(n, c) ==
  /\ ~Started(n)
  /\ Start(n, c)
  /\ c.title # "none"
  /\ c.sha = head + 1 /\ head' = head + 1
  /\ c.tree = tree' /\ IsTree(tree')
  /\ tree'.entity = tree.entity
  /\ IF c.title \in {"bind", "unbind"} THEN tree.binding = None /\ tree'.binding = n
                                      ELSE tree'.binding = tree.binding
  /\ IF c.title = "destroy" THEN tree.destroy = None /\ tree'.destroy = n /\ template = "tfNodejs"
                            ELSE tree'.destroy = tree.destroy
  /\ UNCHANGED <<template, creds, ledger, outdated>>

-------------------------------------------------------------------------------
(* Every action is the step of a job or an arrival. *)

\* A pipeline to start is one that has not.
LEMMA NextIdFree == ASSUME Free # {} PROVE NextId \in Ids /\ ~Started(NextId)
BY DEF NextId, Free

\* The jobs of the pipelines.
LEMMA JobNames ==
  /\ StagesJobName \in Jobs /\ BindingJobName \in Jobs /\ DestroyJobName \in Jobs
  /\ \A kind \in Kinds, p \in Provs : <<kind, p>> \in Jobs
BY DEF StagesJobName, BindingJobName, DestroyJobName, Jobs

\* Only a started pipeline has jobs.
LEMMA WaitingIsStarted ==
  ASSUME Inv, NEW n \in Ids, NEW j \in Jobs, job[n][j] # "absent"
  PROVE  Started(n)
BY DEF Inv, JobsStarted

\* plain pushes.
LEMMA PushIsStep ==
  ASSUME Inv, NEW n \in Ids, NEW j \in Jobs, NEW t, job[n][j] = "waiting", Pushes(n, j, t),
         IsTree(t), UNCHANGED <<template, commit, creds>>
  PROVE  JobStep(n, j, "pushed")
BY DEF Inv, Shape, Pushes, JobStep, Status

\* A refused push is the step of a job.
LEMMA RefusalIsStep ==
  ASSUME Inv, NEW n \in Ids, NEW j \in Jobs, job[n][j] = "waiting", IsRefused(n, j),
         UNCHANGED <<template, commit, creds>>
  PROVE  JobStep(n, j, "refused")
BY DEF Inv, Shape, IsRefused, JobStep, Status

\* The commit of a job has files.
LEMMA WaitingTree ==
  ASSUME Inv, NEW n \in Ids, NEW j \in Jobs, job[n][j] # "absent"
  PROVE  IsTree(commit[n].tree)
BY WaitingIsStarted DEF Inv, OnMain

\* bind-resource and unbind-resource are steps of a job.
LEMMA BindResourceStep ==
  ASSUME Inv, NEW n \in Ids, BindResource(n)
  PROVE  \E st : JobStep(n, BindingJobName, st)
<1>1. job[n][BindingJobName] = "waiting" BY DEF BindResource, Ready
<1>2. IsTree(commit[n].tree) BY <1>1, JobNames, WaitingTree
<1> DEFINE c == commit[n]
           e == BoundOrNot(c, c.tree.entity)
           t == WithEntity(c.tree, e)
           u == [t EXCEPT !.binding = None]
<1>3. IsTree(t) BY <1>2, EntitySet DEF WithEntity
<1>4. IsTree(u) BY <1>3, BindingCleared
<1>5. CASE IsRefused(n, BindingJobName)
  BY <1>1, <1>5, JobNames, RefusalIsStep DEF BindResource
<1>6. CASE Pushes(n, BindingJobName, u)
  BY <1>1, <1>4, <1>6, JobNames, PushIsStep DEF BindResource
<1> QED BY <1>5, <1>6 DEF BindResource

\* destroy-tf is the step of a job.
LEMMA DestroyTfStep ==
  ASSUME Inv, NEW n \in Ids, DestroyTf(n)
  PROVE  \E st : JobStep(n, DestroyJobName, st)
<1>1. job[n][DestroyJobName] = "waiting" BY DEF DestroyTf, Ready
<1>2. IsTree(commit[n].tree) BY <1>1, JobNames, WaitingTree
<1> DEFINE c == commit[n]
           e == NoLonger(c.tree.entity, EnvOf[c.subject])
           t == WithEntity(c.tree, e)
           u == [t EXCEPT !.destroy = None]
<1>3. IsTree(t) BY <1>2, EntitySet DEF WithEntity
<1>4. IsTree(u) BY <1>3, DestroyCleared
<1>5. CASE IsRefused(n, DestroyJobName)
  BY <1>1, <1>5, JobNames, RefusalIsStep DEF DestroyTf
<1>6. CASE Pushes(n, DestroyJobName, u)
  BY <1>1, <1>4, <1>6, JobNames, PushIsStep DEF DestroyTf
<1> QED BY <1>5, <1>6 DEF DestroyTf

\* iac-deployment is the step of a job.
LEMMA DeployIacStep ==
  ASSUME Inv, NEW n \in Ids, NEW p \in Provs, DeployIac(n, p)
  PROVE  \E st : JobStep(n, <<"iac", p>>, st)
<1> DEFINE j == <<"iac", p>>
           u == WithEntity(commit[n].tree, Detailed(commit[n].tree.entity, p))
<1>0. j \in Jobs BY JobNames DEF Kinds
<1>1. job[n][j] = "waiting" BY DEF DeployIac, Ready
<1>2. IsTree(commit[n].tree) BY <1>0, <1>1, WaitingTree
<1>3. IsTree(u) BY <1>2, EntitySet DEF WithEntity
<1>u. UNCHANGED <<template, commit, creds>> BY DEF DeployIac
<1>4. CASE IsRefused(n, j)
  BY <1>0, <1>1, <1>4, <1>u, RefusalIsStep
<1>5. CASE Pushes(n, j, u)
  BY <1>0, <1>1, <1>3, <1>5, <1>u, PushIsStep
<1>6. CASE Becomes(n, j, "done") /\ UNCHANGED <<tree, head>>
  BY <1>1, <1>6, <1>u DEF JobStep, Inv, Shape, Status
<1> QED BY <1>4, <1>5, <1>6 DEF DeployIac

\* get-aws-creds is the step of a job.
LEMMA GetAwsCredsStep ==
  ASSUME Inv, NEW n \in Ids, NEW p \in Provs, GetAwsCreds(n, p)
  PROVE  \E st : JobStep(n, <<"creds", p>>, st)
<1>1. job[n][<<"creds", p>>] = "waiting" BY DEF GetAwsCreds, Ready
<1>2. creds' \in [Provs -> Ids \cup {None}] BY DEF GetAwsCreds, Inv, Shape
<1>3. PICK st \in {"done", "failed"} : Becomes(n, <<"creds", p>>, st) BY DEF GetAwsCreds
<1> QED BY <1>1, <1>2, <1>3 DEF GetAwsCreds, JobStep, Status

\* build-image and sam-package are steps of a job.
LEMMA BuildStep ==
  ASSUME Inv, NEW n \in Ids, NEW p \in Provs, Build(n, p)
  PROVE  \E kind \in {"build", "sam"} : JobStep(n, <<kind, p>>, "done")
<1>1. PICK kind \in {"build", "sam"} :
        Ready(n, <<kind, p>>) /\ Becomes(n, <<kind, p>>, "done")
  BY DEF Build
<1>2. job[n][<<kind, p>>] = "waiting" BY <1>1 DEF Ready
<1> QED BY <1>1, <1>2 DEF Build, JobStep, Status, Inv, Shape

\* delete-aws-creds is the step of a job.
LEMMA DeleteAwsCredsStep ==
  ASSUME Inv, NEW n \in Ids, NEW p \in Provs, DeleteAwsCreds(n, p)
  PROVE  JobStep(n, <<"clean", p>>, "done")
<1>1. job[n][<<"clean", p>>] = "waiting" BY DEF DeleteAwsCreds, Ready
<1>2. creds' \in [Provs -> Ids \cup {None}] BY DEF DeleteAwsCreds, Inv, Shape
<1> QED BY <1>1, <1>2 DEF DeleteAwsCreds, JobStep, Status

\* The first half of git-commit is the step of a job.
LEMMA CommitReadsStep ==
  ASSUME Inv, NEW n \in Ids, NEW p \in Provs, CommitReads(n, p)
  PROVE  JobStep(n, <<"commit", p>>, "reading")
<1>1. job[n][<<"commit", p>>] = "waiting" BY DEF CommitReads, Ready
<1> QED BY <1>1 DEF CommitReads, JobStep, Status, Inv, Shape

\* The second half of git-commit is the step of a job.
LEMMA CommitWritesStep ==
  ASSUME Inv, NEW n \in Ids, NEW p \in Provs, CommitWrites(n, p)
  PROVE  \E st : JobStep(n, <<"commit", p>>, st)
<1>1. job[n][<<"commit", p>>] = "reading" BY DEF CommitWrites
<1>2. creds' \in [Provs -> Ids \cup {None}] BY DEF CommitWrites, Inv, Shape
<1> DEFINE u == WithEntity(tree, Detailed(seen[n][p], p))
<1>3. IsTree(u) BY EntitySet DEF WithEntity, Inv, Shape
<1>u. UNCHANGED <<template, commit>> BY DEF CommitWrites
<1>4. CASE Becomes(n, <<"commit", p>>, "done") /\ UNCHANGED <<tree, head>>
  BY <1>1, <1>2, <1>4, <1>u DEF JobStep, Status
<1>5. CASE Becomes(n, <<"commit", p>>, "pushed") /\ tree' = u /\ head' = head + 1
  BY <1>1, <1>2, <1>3, <1>5, <1>u DEF JobStep, Status
<1> QED BY <1>4, <1>5 DEF CommitWrites

\* A failure is the step of a job.
LEMMA FailsStep ==
  ASSUME Inv, NEW n \in Ids, NEW j \in Jobs, Fails(n, j)
  PROVE  JobStep(n, j, "failed")
<1>1. job[n][j] \in {"waiting", "reading"} BY DEF Fails, Ready
<1>2. creds' \in [Provs -> Ids \cup {None}] BY DEF Fails, Inv, Shape
<1> QED BY <1>1, <1>2 DEF Fails, JobStep, Status

\* create-ci-stages.
StagesCommit(n) ==
  [title |-> "added", subject |-> None, iac |-> FALSE, named |-> AddedEnvs(commit[n].tree),
   sha |-> head + 1,
   tree |-> [[commit[n].tree EXCEPT !.stages = Staged(commit[n].tree)]
               EXCEPT !.jobs = commit[n].tree.providers]]

\* create-ci-stages, when its push starts a pipeline.
CreatesAndStarts(n) ==
  LET c == StagesCommit(n) IN
  /\ commit[n].sha = head
  /\ tree' = c.tree
  /\ head' = head + 1
  /\ Free # {}
  /\ commit' = [commit EXCEPT ![NextId] = c]
  /\ job' = [job EXCEPT ![n][StagesJobName] = "pushed", ![NextId] = JobsOfCommit(c)]
  /\ UNCHANGED <<ledger, template, seen, creds, outdated>>

\* create-ci-stages leaves the entity and the temporary files alone.
LEMMA StagesTree ==
  ASSUME Inv, NEW n \in Ids, job[n][StagesJobName] = "waiting"
  PROVE  LET t == commit[n].tree
             u == StagesCommit(n).tree
         IN IsTree(u) /\ u.entity = t.entity /\ u.binding = t.binding /\ u.destroy = t.destroy
<1>1. IsTree(commit[n].tree) BY JobNames, WaitingTree
<1> DEFINE t == commit[n].tree
           v == [t EXCEPT !.stages = Staged(t)]
           u == [v EXCEPT !.jobs = t.providers]
<1>2. IsTree(v) /\ v.entity = t.entity /\ v.binding = t.binding /\ v.destroy = t.destroy
  BY <1>1, StagesSet
<1>3. IsTree(u) /\ u.entity = v.entity /\ u.binding = v.binding /\ u.destroy = v.destroy
  BY <1>2, JobsSet
<1>4. StagesCommit(n).tree = u BY DEF StagesCommit
<1> HIDE DEF u, v
<1> QED BY <1>2, <1>3, <1>4

\* create-ci-stages is the step of a job, which may start a pipeline.
LEMMA CreateCiStagesStep ==
  ASSUME Inv, NEW n \in Ids, CreateCiStages(n)
  PROVE  \/ JobStep(n, StagesJobName, "pushed") /\ tree' = StagesCommit(n).tree
         \/ JobStep(n, StagesJobName, "refused")
         \/ CreatesAndStarts(n)
<1>1. job[n][StagesJobName] = "waiting" BY DEF CreateCiStages, Ready
<1>2. IsTree(StagesCommit(n).tree) BY <1>1, StagesTree
<1>u. UNCHANGED <<template, creds>> BY DEF CreateCiStages
<1>3. CASE IsRefused(n, StagesJobName) /\ UNCHANGED commit
  BY <1>1, <1>3, <1>u, JobNames, RefusalIsStep
<1>4. CASE /\ commit[n].sha = head /\ tree' = StagesCommit(n).tree /\ head' = head + 1
           /\ Free = {} /\ Becomes(n, StagesJobName, "pushed") /\ UNCHANGED commit
  <2>1. Pushes(n, StagesJobName, StagesCommit(n).tree) BY <1>4 DEF Pushes
  <2> QED BY <1>1, <1>2, <1>4, <1>u, <2>1, JobNames, PushIsStep
<1>5. CASE CreatesAndStarts(n) BY <1>5
<1> QED BY <1>3, <1>4, <1>5 DEF CreateCiStages, CreatesAndStarts, StagesCommit

\* Whatever else a pipeline does is the step of a job.
LEMMA NotStagesSteps ==
  ASSUME Inv, NEW n \in Ids, Works(n), ~CreateCiStages(n)
  PROVE  \E j \in Jobs : \E st : JobStep(n, j, st)
<1>2. CASE BindResource(n) BY <1>2, BindResourceStep, JobNames
<1>3. CASE DestroyTf(n) BY <1>3, DestroyTfStep, JobNames
<1>4. ASSUME NEW p \in Provs, DeployIac(n, p)
      PROVE  \E j \in Jobs : \E st : JobStep(n, j, st)
  BY <1>4, DeployIacStep, JobNames DEF Kinds
<1>5. ASSUME NEW p \in Provs, GetAwsCreds(n, p)
      PROVE  \E j \in Jobs : \E st : JobStep(n, j, st)
  BY <1>5, GetAwsCredsStep, JobNames DEF Kinds
<1>6. ASSUME NEW p \in Provs, Build(n, p)
      PROVE  \E j \in Jobs : \E st : JobStep(n, j, st)
  <2>1. PICK kind \in {"build", "sam"} : JobStep(n, <<kind, p>>, "done") BY <1>6, BuildStep
  <2> QED BY <2>1, JobNames DEF Kinds
<1>7. ASSUME NEW p \in Provs, DeleteAwsCreds(n, p)
      PROVE  \E j \in Jobs : \E st : JobStep(n, j, st)
  BY <1>7, DeleteAwsCredsStep, JobNames DEF Kinds
<1>8. ASSUME NEW p \in Provs, CommitReads(n, p)
      PROVE  \E j \in Jobs : \E st : JobStep(n, j, st)
  BY <1>8, CommitReadsStep, JobNames DEF Kinds
<1>9. ASSUME NEW p \in Provs, CommitWrites(n, p)
      PROVE  \E j \in Jobs : \E st : JobStep(n, j, st)
  BY <1>9, CommitWritesStep, JobNames DEF Kinds
<1>10. ASSUME NEW j \in Jobs, Fails(n, j) PROVE JobStep(n, j, "failed")
  BY <1>10, FailsStep
<1> QED BY <1>2, <1>3, <1>4, <1>5, <1>6, <1>7, <1>8, <1>9, <1>10 DEF Works

\* A commit that lands arrives, whatever its files.
LEMMA LandStep ==
  ASSUME Inv, NEW title \in Titles, NEW subject, NEW iac, NEW t, Land(title, subject, iac, t),
         IsTree(t), t.entity = tree.entity,
         IF title \in {"bind", "unbind"} THEN tree.binding = None /\ t.binding = NextId
                                        ELSE t.binding = tree.binding,
         IF title = "destroy" THEN tree.destroy = None /\ t.destroy = NextId /\ template = "tfNodejs"
                              ELSE t.destroy = tree.destroy
  PROVE  \E n \in Ids : \E c : Arrival(n, c)
<1> DEFINE c == [title |-> title, subject |-> subject, iac |-> iac, named |-> {},
                 sha |-> head + 1, tree |-> t]
<1>1. NextId \in Ids /\ ~Started(NextId) BY NextIdFree DEF Land
<1>2. title # "none" BY DEF Titles
<1>3. Arrival(NextId, c) BY <1>1, <1>2 DEF Land, Arrival
<1> QED BY <1>1, <1>3

\* The commits of the portal and of people arrive.
LEMMA OutsideSteps ==
  ASSUME Inv, Promote \/ Bind \/ Destroy \/ Develop
  PROVE  \E n \in Ids : \E c : Arrival(n, c)
<1>0. IsTree(tree) BY DEF Inv, Shape
<1>1. CASE Promote
  <2>1. PICK new : Land("generate", None, FALSE, [tree EXCEPT !.providers = @ \cup new])
    BY <1>1 DEF Promote
  <2>2. Land("generate", None, FALSE, [tree EXCEPT !.providers = tree.providers \cup new])
    BY <2>1, <1>0 DEF IsTree
  <2>3. LET t == [tree EXCEPT !.providers = tree.providers \cup new]
        IN /\ IsTree(t) /\ t.entity = tree.entity
           /\ t.binding = tree.binding /\ t.destroy = tree.destroy
    BY <1>0, FilesAdded
  <2> QED BY <2>2, <2>3, LandStep DEF Titles
<1>2. CASE Bind
  <2>1. PICK r \in Resources, title \in {"bind", "unbind"} :
          Land(title, r, title \in PoliciesFor[r], [tree EXCEPT !.binding = NextId])
    BY <1>2 DEF Bind
  <2>2. LET t == [tree EXCEPT !.binding = NextId]
        IN /\ IsTree(t) /\ t.entity = tree.entity
           /\ t.binding = NextId /\ t.destroy = tree.destroy
    BY <1>0, BindingCleared
  <2>3. tree.binding = None BY <1>2 DEF Bind
  <2> QED BY <2>1, <2>2, <2>3, LandStep DEF Titles
<1>3. CASE Destroy
  <2>1. PICK p \in tree.providers : Land("destroy", p, FALSE, [tree EXCEPT !.destroy = NextId])
    BY <1>3 DEF Destroy
  <2>2. LET t == [tree EXCEPT !.destroy = NextId]
        IN /\ IsTree(t) /\ t.entity = tree.entity
           /\ t.binding = tree.binding /\ t.destroy = NextId
    BY <1>0, DestroyCleared
  <2>3. tree.destroy = None /\ template = "tfNodejs" BY <1>3 DEF Destroy
  <2> QED BY <2>1, <2>2, <2>3, LandStep DEF Titles
<1>4. CASE Develop
  <2>1. PICK iac \in BOOLEAN : Land("push", None, iac, tree) BY <1>4 DEF Develop
  <2> QED BY <1>0, <2>1, LandStep DEF Titles
<1> QED BY <1>1, <1>2, <1>3, <1>4

-------------------------------------------------------------------------------
(* The invariance. *)

\* The first files are files.
LEMMA NewTreeIsTree == IsTree(NewTree) /\ IsTree(DeployedTree)
<1>1. IsTree(NewTree) BY DEF IsTree, NewTree
<1> DEFINE v == [NewTree EXCEPT !.jobs = FirstProvs]
           e == [deps |-> {FirstEnv}, details |-> FirstProvs]
<1>2. IsTree(v) BY <1>1, JobsSet
<1>3. IsTree([v EXCEPT !.entity = e]) BY <1>2, EntitySet
<1>4. DeployedTree = [v EXCEPT !.entity = e] BY DEF DeployedTree
<1> HIDE DEF v, e
<1> QED BY <1>1, <1>3, <1>4

\* The invariant holds at first.
LEMMA InitInv == Init => Inv
<1> SUFFICES ASSUME Init PROVE Inv OBVIOUS
<1>0. PICK new \in BOOLEAN :
       /\ tree = IF new THEN NewTree ELSE DeployedTree
       /\ head = IF new THEN 1 ELSE 2
       /\ job = [n \in Ids |-> [j \in Jobs |->
                   IF n = FirstId /\ j = StagesJobName
                   THEN IF new THEN "waiting" ELSE "pushed" ELSE "absent"]]
  BY DEF Init
<1>1. IsTree(tree) BY <1>0, NewTreeIsTree
<1>2. Shape
  <2>1. job \in [Ids -> [Jobs -> Status]] BY <1>0 DEF Status
  <2> QED BY <1>0, <1>1, <2>1, TemplatesAssumption DEF Init, Shape
<1>3. \A n \in Ids : commit[n] = IF n = FirstId THEN NewCommit ELSE NoCommit BY DEF Init
<1>4. NoCommit.title = "none" BY DEF NoCommit, NewCommit
<1>5. NewCommit.title = "initial" /\ NewCommit.sha = 1 /\ NewCommit.tree = NewTree
  BY DEF NewCommit
<1>6. \A n \in Ids : Started(n) <=> n = FirstId BY <1>3, <1>4, <1>5 DEF Started
<1>7. OnMain BY <1>0, <1>3, <1>5, <1>6, NewTreeIsTree DEF OnMain
<1>8. NewTree.jobs = {} BY DEF NewTree
<1>9. Valid(NewCommit) BY <1>5, <1>8 DEF Valid
<1>10. \A j \in Jobs : StartsJob(NewCommit, j) <=> j = StagesJobName
  BY <1>5, <1>8 DEF StartsJob
<1>11. JobsStarted BY <1>0, <1>3, <1>6, <1>9, <1>10 DEF JobsStarted
<1>12. PushedIsPast BY <1>0, <1>3, <1>5 DEF PushedIsPast
<1> QED BY <1>2, <1>7, <1>11, <1>12 DEF Inv

\* Which jobs a pipeline has depends on its commit and the template only.
LEMMA SamePipelines ==
  ASSUME NEW n \in Ids, commit'[n] = commit[n], template' = template
  PROVE  /\ Started(n)' <=> Started(n)
         /\ Valid(commit[n])' <=> Valid(commit[n])
         /\ \A j : StartsJob(commit[n], j)' <=> StartsJob(commit[n], j)
BY DEF Started, Valid, StartsJob, Named

\* The step of a job keeps the invariant.
LEMMA JobStepInv ==
  ASSUME Inv, NEW n \in Ids, NEW j \in Jobs, NEW st, JobStep(n, j, st)
  PROVE  Inv'
<1> USE DEF Inv
<1>1. st \in Status /\ job \in [Ids -> [Jobs -> Status]] BY DEF JobStep, Shape
<1>2. /\ job' \in [Ids -> [Jobs -> Status]]
      /\ job'[n][j] = st
      /\ \A m \in Ids, k \in Jobs : m # n \/ k # j => job'[m][k] = job[m][k]
  BY <1>1, BecomesFacts DEF JobStep
<1>3. IsTree(tree') BY DEF JobStep, Shape
<1>4. head' \in Nat /\ head' >= head BY DEF JobStep, Shape
<1>5. Shape' BY <1>2, <1>3, <1>4 DEF JobStep, Shape
<1>6. OnMain'
  <2> SUFFICES ASSUME NEW m \in Ids, Started(m)'
               PROVE  /\ commit'[m].sha \in Nat /\ commit'[m].sha <= head'
                      /\ commit'[m].sha = head' => commit'[m].tree = tree'
                      /\ IsTree(commit'[m].tree)
    BY DEF OnMain
  <2>1. commit'[m] = commit[m] /\ Started(m) BY DEF JobStep, Started
  <2>2. /\ commit[m].sha \in Nat /\ commit[m].sha <= head
        /\ commit[m].sha = head => commit[m].tree = tree
        /\ IsTree(commit[m].tree)
    BY <2>1 DEF OnMain
  <2>3. commit[m].sha <= head' BY <2>2, <1>4 DEF Shape
  <2>4. CASE head' = head /\ tree' = tree BY <2>1, <2>2, <2>3, <2>4
  <2>5. CASE head' = head + 1 BY <2>1, <2>2, <2>3, <2>5 DEF Shape
  <2> QED BY <2>4, <2>5 DEF JobStep
<1>7. JobsStarted'
  <2> SUFFICES ASSUME NEW m \in Ids, NEW k \in Jobs
               PROVE  job'[m][k] # "absent" <=>
                        Started(m)' /\ Valid(commit[m])' /\ StartsJob(commit[m], k)'
    BY DEF JobsStarted
  <2>1. job'[m][k] # "absent" <=> job[m][k] # "absent" BY <1>2 DEF JobStep
  <2>2. commit'[m] = commit[m] /\ template' = template BY DEF JobStep
  <2> QED BY <2>1, <2>2, SamePipelines DEF JobsStarted
<1>8. PushedIsPast'
  <2> SUFFICES ASSUME NEW m \in Ids, NEW k \in Jobs, job'[m][k] = "pushed", k[1] # "commit"
               PROVE  commit'[m].sha < head'
    BY DEF PushedIsPast
  <2>1. CASE m = n /\ k = j
    BY <1>2, <2>1 DEF JobStep, Shape
  <2>2. CASE m # n \/ k # j
    <3>1. job[m][k] = "pushed" BY <1>2, <2>2
    <3>2. Started(m) BY <3>1, WaitingIsStarted
    <3>3. commit[m].sha < head /\ commit[m].sha \in Nat BY <3>1, <3>2 DEF PushedIsPast, OnMain
    <3> QED BY <3>3, <1>4 DEF JobStep, Shape
  <2> QED BY <2>1, <2>2
<1> QED BY <1>5, <1>6, <1>7, <1>8

\* The jobs a pipeline starts with.
LEMMA JobsOfCommitFacts ==
  ASSUME NEW c, NEW j \in Jobs
  PROVE  /\ JobsOfCommit(c)[j] \in {"absent", "waiting"}
         /\ JobsOfCommit(c)[j] # "absent" <=> Valid(c) /\ StartsJob(c, j)
BY DEF JobsOfCommit

\* A commit from outside keeps the invariant.
LEMMA ArrivalInv ==
  ASSUME Inv, NEW n \in Ids, NEW c, Arrival(n, c)
  PROVE  Inv'
<1> USE DEF Inv
<1>1. /\ DOMAIN commit' = Ids
      /\ commit'[n] = c
      /\ \A m \in Ids \ {n} : commit'[m] = commit[m]
      /\ job' \in [Ids -> [Jobs -> Status]]
      /\ \A j \in Jobs : job'[n][j] = JobsOfCommit(c)[j]
      /\ \A m \in Ids \ {n} : job'[m] = job[m]
  BY StartFacts DEF Arrival, Shape
<1>2. Shape' BY <1>1 DEF Arrival, Shape
<1>3. OnMain'
  <2> SUFFICES ASSUME NEW m \in Ids, Started(m)'
               PROVE  /\ commit'[m].sha \in Nat /\ commit'[m].sha <= head'
                      /\ commit'[m].sha = head' => commit'[m].tree = tree'
                      /\ IsTree(commit'[m].tree)
    BY DEF OnMain
  <2>1. CASE m = n BY <1>1, <2>1 DEF Arrival, Shape
  <2>2. CASE m # n
    <3>1. commit'[m] = commit[m] /\ Started(m) BY <1>1, <2>2 DEF Started
    <3>2. commit[m].sha \in Nat /\ commit[m].sha <= head /\ IsTree(commit[m].tree)
      BY <3>1 DEF OnMain
    <3> QED BY <3>1, <3>2 DEF Arrival, Shape
  <2> QED BY <2>1, <2>2
<1>4. JobsStarted'
  <2> SUFFICES ASSUME NEW m \in Ids, NEW k \in Jobs
               PROVE  job'[m][k] # "absent" <=>
                        Started(m)' /\ Valid(commit[m])' /\ StartsJob(commit[m], k)'
    BY DEF JobsStarted
  <2>1. CASE m = n
    <3>1. job'[m][k] # "absent" <=> Valid(c) /\ StartsJob(c, k)
      BY <1>1, <2>1, JobsOfCommitFacts
    <3>2. commit'[m] = c /\ template' = template BY <1>1, <2>1 DEF Arrival
    <3>3. Started(m)' BY <3>2 DEF Started, Arrival
    <3>4. (Valid(commit[m])' <=> Valid(c)) /\ (StartsJob(commit[m], k)' <=> StartsJob(c, k))
      BY <3>2 DEF Valid, StartsJob, Named
    <3> QED BY <3>1, <3>3, <3>4
  <2>2. CASE m # n
    <3>1. job'[m][k] = job[m][k] BY <1>1, <2>2
    <3>2. commit'[m] = commit[m] /\ template' = template BY <1>1, <2>2 DEF Arrival
    <3> QED BY <3>1, <3>2, SamePipelines DEF JobsStarted
  <2> QED BY <2>1, <2>2
<1>5. PushedIsPast'
  <2> SUFFICES ASSUME NEW m \in Ids, NEW k \in Jobs, job'[m][k] = "pushed", k[1] # "commit"
               PROVE  commit'[m].sha < head'
    BY DEF PushedIsPast
  <2>1. m # n BY <1>1, JobsOfCommitFacts
  <2>2. job[m][k] = "pushed" /\ commit'[m] = commit[m] BY <1>1, <2>1
  <2>3. Started(m) BY <2>2, WaitingIsStarted
  <2>4. commit[m].sha < head /\ commit[m].sha \in Nat BY <2>2, <2>3 DEF PushedIsPast, OnMain
  <2> QED BY <2>2, <2>4 DEF Arrival, Shape
<1> QED BY <1>2, <1>3, <1>4, <1>5

\* What create-ci-stages changes when its push starts a pipeline.
LEMMA SpawnFacts ==
  ASSUME Inv, NEW n \in Ids, job[n][StagesJobName] = "waiting", CreatesAndStarts(n)
  PROVE  LET new == NextId
             c == StagesCommit(n)
         IN /\ new \in Ids /\ new # n /\ ~Started(new)
            /\ DOMAIN commit' = Ids
            /\ commit'[new] = c
            /\ \A m \in Ids \ {new} : commit'[m] = commit[m]
            /\ job' \in [Ids -> [Jobs -> Status]]
            /\ \A j \in Jobs : job'[new][j] = JobsOfCommit(c)[j]
            /\ job'[n][StagesJobName] = "pushed"
            /\ \A m \in Ids \ {new}, k \in Jobs :
                 m # n \/ k # StagesJobName => job'[m][k] = job[m][k]
<1> DEFINE new == NextId
           c == StagesCommit(n)
<1>1. new \in Ids /\ ~Started(new) BY NextIdFree DEF CreatesAndStarts
<1>2. Started(n) BY WaitingIsStarted, JobNames
<1>3. new # n BY <1>1, <1>2
<1>4. job \in [Ids -> [Jobs -> Status]] /\ DOMAIN commit = Ids BY DEF Inv, Shape
<1>5. commit' = [commit EXCEPT ![new] = c] BY DEF CreatesAndStarts
<1>6. JobsOfCommit(c) \in [Jobs -> Status] BY DEF JobsOfCommit, Status
<1> DEFINE pushed == [job[n] EXCEPT ![StagesJobName] = "pushed"]
<1>7. /\ pushed \in [Jobs -> Status] /\ pushed[StagesJobName] = "pushed"
      /\ \A k \in Jobs : k # StagesJobName => pushed[k] = job[n][k]
  BY <1>4, JobNames DEF Status
<1> DEFINE mid == [job EXCEPT ![n] = pushed]
<1>8. job' = [mid EXCEPT ![new] = JobsOfCommit(c)] BY DEF CreatesAndStarts
<1> HIDE DEF c, new, pushed
<1>9. mid \in [Ids -> [Jobs -> Status]] /\ mid[n] = pushed
      /\ \A m \in Ids : m # n => mid[m] = job[m]
  BY <1>4, <1>7
<1> HIDE DEF mid
<1>10. /\ job' \in [Ids -> [Jobs -> Status]]
       /\ job'[new] = JobsOfCommit(c)
       /\ \A m \in Ids : m # new => job'[m] = mid[m]
  BY <1>1, <1>6, <1>8, <1>9
<1>11. DOMAIN commit' = Ids /\ commit'[new] = c
       /\ \A m \in Ids \ {new} : commit'[m] = commit[m]
  BY <1>1, <1>4, <1>5
<1>12. job'[n][StagesJobName] = "pushed" BY <1>3, <1>7, <1>9, <1>10
<1>13. \A m \in Ids \ {new}, k \in Jobs :
         m # n \/ k # StagesJobName => job'[m][k] = job[m][k]
  BY <1>3, <1>7, <1>9, <1>10
<1> QED BY <1>1, <1>3, <1>10, <1>11, <1>12, <1>13 DEF c, new

\* It keeps the invariant.
LEMMA SpawnInv ==
  ASSUME Inv, NEW n \in Ids, job[n][StagesJobName] = "waiting", CreatesAndStarts(n)
  PROVE  Inv'
<1> USE DEF Inv
<1> DEFINE new == NextId
           c == StagesCommit(n)
<1>1. /\ new \in Ids /\ new # n /\ ~Started(new)
      /\ DOMAIN commit' = Ids
      /\ commit'[new] = c
      /\ \A m \in Ids \ {new} : commit'[m] = commit[m]
      /\ job' \in [Ids -> [Jobs -> Status]]
      /\ \A j \in Jobs : job'[new][j] = JobsOfCommit(c)[j]
      /\ job'[n][StagesJobName] = "pushed"
      /\ \A m \in Ids \ {new}, k \in Jobs :
           m # n \/ k # StagesJobName => job'[m][k] = job[m][k]
  BY SpawnFacts
<1>2. Started(n) /\ job[n][StagesJobName] # "absent" BY WaitingIsStarted, JobNames
<1>3. /\ c.title = "added" /\ c.sha = head + 1 /\ c.tree = tree' /\ head' = head + 1
      /\ commit[n].sha = head /\ template' = template /\ creds' = creds
  BY DEF CreatesAndStarts, StagesCommit
<1>4. IsTree(tree') BY <1>3, StagesTree
<1> HIDE DEF new, c
<1>5. Shape' BY <1>1, <1>3, <1>4 DEF Shape
<1>6. OnMain'
  <2> SUFFICES ASSUME NEW m \in Ids, Started(m)'
               PROVE  /\ commit'[m].sha \in Nat /\ commit'[m].sha <= head'
                      /\ commit'[m].sha = head' => commit'[m].tree = tree'
                      /\ IsTree(commit'[m].tree)
    BY DEF OnMain
  <2>1. CASE m = new BY <1>1, <1>3, <1>4, <2>1 DEF Shape
  <2>2. CASE m # new
    <3>1. commit'[m] = commit[m] /\ Started(m) BY <1>1, <2>2 DEF Started
    <3>2. commit[m].sha \in Nat /\ commit[m].sha <= head /\ IsTree(commit[m].tree)
      BY <3>1 DEF OnMain
    <3> QED BY <3>1, <3>2, <1>3 DEF Shape
  <2> QED BY <2>1, <2>2
<1>7. JobsStarted'
  <2> SUFFICES ASSUME NEW m \in Ids, NEW k \in Jobs
               PROVE  job'[m][k] # "absent" <=>
                        Started(m)' /\ Valid(commit[m])' /\ StartsJob(commit[m], k)'
    BY DEF JobsStarted
  <2>1. CASE m = new
    <3>1. job'[m][k] # "absent" <=> Valid(c) /\ StartsJob(c, k)
      BY <1>1, <2>1, JobsOfCommitFacts
    <3>2. commit'[m] = c /\ template' = template BY <1>1, <1>3, <2>1
    <3>3. Started(m)' BY <3>2, <1>3 DEF Started
    <3>4. (Valid(commit[m])' <=> Valid(c)) /\ (StartsJob(commit[m], k)' <=> StartsJob(c, k))
      BY <3>2 DEF Valid, StartsJob, Named
    <3> QED BY <3>1, <3>3, <3>4
  <2>2. CASE m # new
    <3>1. job'[m][k] # "absent" <=> job[m][k] # "absent" BY <1>1, <1>2, <2>2
    <3>2. commit'[m] = commit[m] /\ template' = template BY <1>1, <1>3, <2>2
    <3> QED BY <3>1, <3>2, SamePipelines DEF JobsStarted
  <2> QED BY <2>1, <2>2
<1>8. PushedIsPast'
  <2> SUFFICES ASSUME NEW m \in Ids, NEW k \in Jobs, job'[m][k] = "pushed", k[1] # "commit"
               PROVE  commit'[m].sha < head'
    BY DEF PushedIsPast
  <2>1. m # new BY <1>1, JobsOfCommitFacts
  <2>2. commit'[m] = commit[m] BY <1>1, <2>1
  <2>3. CASE m = n /\ k = StagesJobName BY <1>3, <2>2, <2>3 DEF Shape
  <2>4. CASE m # n \/ k # StagesJobName
    <3>1. job[m][k] = "pushed" BY <1>1, <2>1, <2>4
    <3>2. Started(m) BY <3>1, WaitingIsStarted
    <3>3. commit[m].sha < head /\ commit[m].sha \in Nat BY <3>1, <3>2 DEF PushedIsPast, OnMain
    <3> QED BY <2>2, <3>3, <1>3 DEF Shape
  <2> QED BY <2>3, <2>4
<1> QED BY <1>5, <1>6, <1>7, <1>8

\* create-ci-stages runs once.
LEMMA SpawnIsOfWaiting ==
  ASSUME NEW n \in Ids, CreateCiStages(n) PROVE job[n][StagesJobName] = "waiting"
BY DEF CreateCiStages, Ready

\* Every step is one of these.
LEMMA Steps ==
  ASSUME Inv, [Next]_vars
  PROVE  \/ vars' = vars
         \/ \E n \in Ids : \E c : Arrival(n, c)
         \/ \E n \in Ids : CreatesAndStarts(n) /\ job[n][StagesJobName] = "waiting"
         \/ \E n \in Ids, j \in Jobs : \E st : JobStep(n, j, st)
<1>1. CASE vars' = vars BY <1>1
<1>2. CASE Promote \/ Bind \/ Destroy \/ Develop BY <1>2, OutsideSteps
<1>3. ASSUME NEW n \in Ids, Works(n), ~CreateCiStages(n)
      PROVE  \E j \in Jobs : \E st : JobStep(n, j, st)
  BY <1>3, NotStagesSteps
<1>4. ASSUME NEW n \in Ids, CreateCiStages(n)
      PROVE  \/ CreatesAndStarts(n) /\ job[n][StagesJobName] = "waiting"
             \/ \E j \in Jobs : \E st : JobStep(n, j, st)
  BY <1>4, CreateCiStagesStep, SpawnIsOfWaiting, JobNames
<1> QED BY <1>1, <1>2, <1>3, <1>4 DEF Next

\* Every step keeps the invariant.
LEMMA NextInv == Inv /\ [Next]_vars => Inv'
<1> SUFFICES ASSUME Inv, [Next]_vars PROVE Inv' OBVIOUS
<1>1. CASE vars' = vars
  <2>1. Shape' BY <1>1 DEF vars, Inv, Shape
  <2>2. OnMain' BY <1>1 DEF vars, Inv, OnMain, Started
  <2>3. PushedIsPast' BY <1>1 DEF vars, Inv, PushedIsPast
  <2>4. JobsStarted'
    <3>1. commit' = commit /\ template' = template /\ job' = job BY <1>1 DEF vars
    <3> QED BY <3>1, SamePipelines DEF Inv, JobsStarted
  <2> QED BY <2>1, <2>2, <2>3, <2>4 DEF Inv
<1>2. ASSUME NEW n \in Ids, NEW c, Arrival(n, c) PROVE Inv' BY <1>2, ArrivalInv
<1>3. ASSUME NEW n \in Ids, CreatesAndStarts(n), job[n][StagesJobName] = "waiting" PROVE Inv'
  BY <1>3, SpawnInv
<1>4. ASSUME NEW n \in Ids, NEW j \in Jobs, NEW st, JobStep(n, j, st) PROVE Inv'
  BY <1>4, JobStepInv
<1> QED BY <1>1, <1>2, <1>3, <1>4, Steps

\* The invariant holds in every behaviour, for any number of pipelines, providers and
\* environments: a pipeline has the jobs of its commit, and main has moved on from every
\* commit that a plain push was made from.
THEOREM Invariance == Spec => []Inv
BY InitInv, NextInv, PTL DEF Spec

-------------------------------------------------------------------------------
(* One record per pipeline. *)

\* At first only create-ci-stages may have pushed.
LEMMA OneRecordInit == Init => OneRecordPerPipeline
<1> SUFFICES ASSUME Init, NEW n \in Ids, NEW j \in Jobs, job[n][j] = "pushed"
             PROVE  j = StagesJobName
  BY DEF OneRecordPerPipeline, PlainlyPushed
<1> QED BY DEF Init

\* A plain push is of the head of main, which it moves: there is no second one.
LEMMA OneRecordNext == Inv /\ OneRecordPerPipeline /\ [Next]_vars => OneRecordPerPipeline'
<1> SUFFICES ASSUME Inv, OneRecordPerPipeline, [Next]_vars,
                    NEW m \in Ids, NEW j1 \in Jobs, NEW j2 \in Jobs,
                    job'[m][j1] = "pushed", job'[m][j2] = "pushed",
                    j1[1] # "commit", j2[1] # "commit"
             PROVE  j1 = j2
  BY DEF OneRecordPerPipeline, PlainlyPushed
<1>0. job[m][j1] = "pushed" /\ job[m][j2] = "pushed" => j1 = j2
  BY DEF OneRecordPerPipeline, PlainlyPushed
<1>1. \A j \in Jobs : job[m][j] = "pushed" /\ j[1] # "commit" => commit[m].sha # head
  <2> SUFFICES ASSUME NEW j \in Jobs, job[m][j] = "pushed", j[1] # "commit"
               PROVE  commit[m].sha # head
    OBVIOUS
  <2>1. Started(m) BY WaitingIsStarted
  <2> QED BY <2>1 DEF Inv, PushedIsPast, OnMain, Shape
<1>2. CASE vars' = vars BY <1>0, <1>2 DEF vars
<1>3. ASSUME NEW n \in Ids, NEW c, Arrival(n, c) PROVE j1 = j2
  <2>1. /\ \A j \in Jobs : job'[n][j] = JobsOfCommit(c)[j]
        /\ \A k \in Ids \ {n} : job'[k] = job[k]
    BY <1>3, StartFacts DEF Arrival, Inv, Shape
  <2> QED BY <2>1, <1>0, JobsOfCommitFacts
<1>4. ASSUME NEW n \in Ids, CreatesAndStarts(n), job[n][StagesJobName] = "waiting"
      PROVE  j1 = j2
  <2> DEFINE new == NextId
  <2>1. /\ \A j \in Jobs : job'[new][j] = JobsOfCommit(StagesCommit(n))[j]
        /\ \A k \in Ids \ {new}, j \in Jobs :
             k # n \/ j # StagesJobName => job'[k][j] = job[k][j]
    BY <1>4, SpawnFacts
  <2> HIDE DEF new
  <2>2. commit[n].sha = head BY <1>4 DEF CreatesAndStarts
  <2>3. m # new BY <2>1, JobsOfCommitFacts
  <2> QED BY <1>0, <1>1, <2>1, <2>2, <2>3
<1>5. ASSUME NEW n \in Ids, NEW j \in Jobs, NEW st, JobStep(n, j, st) PROVE j1 = j2
  <2>1. /\ job'[n][j] = st
        /\ \A k \in Ids, i \in Jobs : k # n \/ i # j => job'[k][i] = job[k][i]
    BY <1>5, BecomesFacts DEF JobStep, Inv, Shape
  <2>2. st = "pushed" /\ j[1] # "commit" => commit[n].sha = head BY <1>5 DEF JobStep
  <2> QED BY <1>0, <1>1, <2>1, <2>2
<1> QED BY <1>2, <1>3, <1>4, <1>5, Steps

\* However many providers an environment has, one plain push of a pipeline at most is
\* accepted (.gitlab-ci-aws-iac-ecs.yml, the push of HEAD:main).
THEOREM OneRecord == Spec => []OneRecordPerPipeline
BY OneRecordInit, OneRecordNext, Invariance, PTL DEF Spec

-------------------------------------------------------------------------------
(* The entity is kept. *)

\* A job whose push is accepted has the files of main.
LEMMA PushedFrom ==
  ASSUME Inv, NEW n \in Ids, NEW j \in Jobs, job[n][j] = "waiting", commit[n].sha = head
  PROVE  commit[n].tree = tree
BY WaitingIsStarted DEF Inv, OnMain

IsEntity(e) == e = [deps |-> e.deps, details |-> e.details]

Held(e, l) == IsEntity(e) /\ IsEntity(l) /\ HoldsAllOf(e, l)

\* A dependency that is added is held, or its name is the beginning of another's.
LEMMA HeldDependency ==
  ASSUME NEW e, NEW l, Held(e, l), NEW x PROVE Held(DependsOn(e, x), WithDependency(l, x))
<1> DEFINE l2 == WithDependency(l, x)
<1>1. IsEntity(l2) /\ l2.deps = l.deps \cup {x} /\ l2.details = l.details
  BY DEF Held, IsEntity, WithDependency
<1>2. CASE AlreadyDependsOn(e, x)
  <2>1. DependsOn(e, x) = e BY <1>2 DEF DependsOn
  <2>2. x \in e.deps \/ \E names \in NameBegins : x = names[1]
    BY <1>2 DEF AlreadyDependsOn, Begins
  <2> HIDE DEF l2
  <2>3. HoldsAllOf(e, l2) BY <1>1, <2>2 DEF Held, HoldsAllOf
  <2> QED BY <1>1, <2>1, <2>3 DEF Held, l2
<1>3. CASE ~AlreadyDependsOn(e, x)
  <2> DEFINE e2 == WithDependency(e, x)
  <2>1. DependsOn(e, x) = e2 BY <1>3 DEF DependsOn
  <2>2. IsEntity(e2) /\ e2.deps = e.deps \cup {x} /\ e2.details = e.details
    BY DEF Held, IsEntity, WithDependency
  <2> HIDE DEF l2, e2
  <2>3. HoldsAllOf(e2, l2) BY <1>1, <2>2 DEF Held, HoldsAllOf
  <2> QED BY <1>1, <2>1, <2>2, <2>3 DEF Held, l2
<1> QED BY <1>2, <1>3

\* So are the outputs of a stack, with the environment.
LEMMA HeldDetails ==
  ASSUME NEW e, NEW l, Held(e, l), NEW p PROVE Held(Detailed(e, p), ToDetail(l, p))
<1> DEFINE e2 == [e EXCEPT !.details = @ \cup {p}]
           l2 == [l EXCEPT !.details = @ \cup {p}]
<1>1. IsEntity(e2) /\ e2.deps = e.deps /\ e2.details = e.details \cup {p}
  BY DEF Held, IsEntity
<1>2. IsEntity(l2) /\ l2.deps = l.deps /\ l2.details = l.details \cup {p}
  BY DEF Held, IsEntity
<1>3. Detailed(e, p) = DependsOn(e2, EnvOf[p]) /\ ToDetail(l, p) = WithDependency(l2, EnvOf[p])
  BY DEF Detailed, ToDetail
<1> HIDE DEF e2, l2
<1>4. Held(e2, l2) BY <1>1, <1>2 DEF Held, HoldsAllOf
<1> QED BY <1>3, <1>4, HeldDependency

\* A dependency that is taken away is in neither.
LEMMA HeldNoLonger ==
  ASSUME NEW e, NEW l, Held(e, l), NEW x PROVE Held(NoLonger(e, x), NoLonger(l, x))
<1> DEFINE e2 == NoLonger(e, x)
           l2 == NoLonger(l, x)
<1>1. IsEntity(e2) /\ e2.deps = e.deps \ {x} /\ e2.details = e.details
  BY DEF Held, IsEntity, NoLonger
<1>2. IsEntity(l2) /\ l2.deps = l.deps \ {x} /\ l2.details = l.details
  BY DEF Held, IsEntity, NoLonger
<1> HIDE DEF e2, l2
<1>3. HoldsAllOf(e2, l2) BY <1>1, <1>2 DEF Held, HoldsAllOf
<1>4. Held(e2, l2) BY <1>1, <1>2, <1>3 DEF Held
<1> QED BY <1>4 DEF e2, l2

\* A binding is one or the other.
LEMMA HeldBinding ==
  ASSUME NEW e, NEW l, Held(e, l), NEW c PROVE Held(BoundOrNot(c, e), ToBindOrNot(c, l))
BY HeldDependency, HeldNoLonger DEF BoundOrNot, ToBindOrNot

KeptInv == outdated \/ Held(tree.entity, ledger)

\* No job loses what the entity had, unless the entity changed under a git-commit.
LEMMA EntityOfWorks ==
  ASSUME Inv, KeptInv, NEW n \in Ids, Works(n) PROVE KeptInv'
<1>0. IsTree(tree) BY DEF Inv, Shape
<1>1. CASE CreateCiStages(n)
  <2>1. UNCHANGED <<ledger, outdated>> BY <1>1 DEF CreateCiStages, IsRefused
  <2>2. job[n][StagesJobName] = "waiting" BY <1>1, SpawnIsOfWaiting
  <2>3. CASE tree' = tree BY <2>1, <2>3 DEF KeptInv
  <2>4. CASE commit[n].sha = head /\ tree' = StagesCommit(n).tree
    BY <2>1, <2>2, <2>4, PushedFrom, StagesTree, JobNames DEF KeptInv
  <2> QED BY <1>1, <2>3, <2>4 DEF CreateCiStages, StagesCommit, IsRefused
<1>2. CASE BindResource(n)
  <2>1. job[n][BindingJobName] = "waiting" /\ outdated' = outdated
    BY <1>2 DEF BindResource, Ready
  <2> DEFINE c == commit[n]
             t == WithEntity(tree, BoundOrNot(c, tree.entity))
             u == [t EXCEPT !.binding = None]
  <2>2. CASE UNCHANGED <<tree, ledger>> BY <2>1, <2>2 DEF KeptInv
  <2>3. CASE /\ commit[n].sha = head
             /\ tree' = [WithEntity(c.tree, BoundOrNot(c, c.tree.entity)) EXCEPT !.binding = None]
             /\ ledger' = ToBindOrNot(c, ledger)
    <3>1. tree' = u BY <2>1, <2>3, PushedFrom, JobNames
    <3>2. IsTree(t) /\ t.entity = BoundOrNot(c, tree.entity) BY <1>0, EntitySet DEF WithEntity
    <3>3. u.entity = t.entity BY <3>2, BindingCleared
    <3>4. tree'.entity = BoundOrNot(c, tree.entity) BY <3>1, <3>2, <3>3
    <3> HIDE DEF t, u, c
    <3>5. Held(tree.entity, ledger) => Held(tree'.entity, ledger') BY <2>3, <3>4, HeldBinding
    <3> QED BY <2>1, <3>5 DEF KeptInv
  <2> QED BY <1>2, <2>2, <2>3 DEF BindResource, Pushes, IsRefused
<1>3. CASE DestroyTf(n)
  <2>1. job[n][DestroyJobName] = "waiting" /\ outdated' = outdated
    BY <1>3 DEF DestroyTf, Ready
  <2> DEFINE c == commit[n]
             t == WithEntity(tree, NoLonger(tree.entity, EnvOf[c.subject]))
             u == [t EXCEPT !.destroy = None]
  <2>2. CASE UNCHANGED <<tree, ledger>> BY <2>1, <2>2 DEF KeptInv
  <2>3. CASE /\ commit[n].sha = head
             /\ tree' = [WithEntity(c.tree, NoLonger(c.tree.entity, EnvOf[c.subject]))
                           EXCEPT !.destroy = None]
             /\ ledger' = NoLonger(ledger, EnvOf[c.subject])
    <3>1. tree' = u BY <2>1, <2>3, PushedFrom, JobNames
    <3>2. IsTree(t) /\ t.entity = NoLonger(tree.entity, EnvOf[c.subject])
      BY <1>0, EntitySet DEF WithEntity
    <3>3. u.entity = t.entity BY <3>2, DestroyCleared
    <3>4. tree'.entity = NoLonger(tree.entity, EnvOf[c.subject]) BY <3>1, <3>2, <3>3
    <3> HIDE DEF t, u, c
    <3>5. Held(tree.entity, ledger) => Held(tree'.entity, ledger') BY <2>3, <3>4, HeldNoLonger
    <3> QED BY <2>1, <3>5 DEF KeptInv
  <2> QED BY <1>3, <2>2, <2>3 DEF DestroyTf, Pushes, IsRefused
<1>4. ASSUME NEW p \in Provs, DeployIac(n, p) PROVE KeptInv'
  <2>1. job[n][<<"iac", p>>] = "waiting" /\ outdated' = outdated
    BY <1>4 DEF DeployIac, Ready
  <2> DEFINE u == WithEntity(tree, Detailed(tree.entity, p))
  <2>2. CASE UNCHANGED <<tree, ledger>> BY <2>1, <2>2 DEF KeptInv
  <2>3. CASE /\ commit[n].sha = head
             /\ tree' = WithEntity(commit[n].tree, Detailed(commit[n].tree.entity, p))
             /\ ledger' = ToDetail(ledger, p)
    <3>0. <<"iac", p>> \in Jobs BY JobNames DEF Kinds
    <3>1. tree' = u BY <2>1, <2>3, <3>0, PushedFrom
    <3>2. u.entity = Detailed(tree.entity, p) BY <1>0, EntitySet DEF WithEntity
    <3> HIDE DEF u
    <3> QED BY <2>1, <2>3, <3>1, <3>2, HeldDetails DEF KeptInv
  <2> QED BY <1>4, <2>2, <2>3 DEF DeployIac, Pushes, IsRefused
<1>5. ASSUME NEW p \in Provs, CommitWrites(n, p) PROVE KeptInv'
  <2> DEFINE written == Detailed(seen[n][p], p)
  <2>1. /\ ledger' = ToDetail(ledger, p)
        /\ outdated' = (outdated \/ seen[n][p] # tree.entity)
        /\ IF written = tree.entity THEN tree' = tree ELSE tree' = WithEntity(tree, written)
    BY <1>5 DEF CommitWrites
  <2>2. WithEntity(tree, written).entity = written BY <1>0, EntitySet DEF WithEntity
  <2>3. tree'.entity = written BY <2>1, <2>2
  <2> QED BY <2>1, <2>3, HeldDetails DEF KeptInv
<1>6. ASSUME NEW p \in Provs,
             GetAwsCreds(n, p) \/ Build(n, p) \/ DeleteAwsCreds(n, p) \/ CommitReads(n, p)
      PROVE  KeptInv'
  BY <1>6 DEF GetAwsCreds, Build, DeleteAwsCreds, CommitReads, KeptInv
<1>7. ASSUME NEW j \in Jobs, Fails(n, j) PROVE KeptInv' BY <1>7 DEF Fails, KeptInv
<1> QED BY <1>1, <1>2, <1>3, <1>4, <1>5, <1>6, <1>7 DEF Works

\* No step does.
LEMMA EntityNext == Inv /\ KeptInv /\ [Next]_vars => KeptInv'
<1> SUFFICES ASSUME Inv, KeptInv, [Next]_vars PROVE KeptInv' OBVIOUS
<1>1. CASE vars' = vars BY <1>1 DEF vars, KeptInv
<1>2. CASE Promote \/ Bind \/ Destroy \/ Develop
  <2>0. PICK n \in Ids : \E c : Arrival(n, c) BY <1>2, OutsideSteps
  <2>1. PICK c : Arrival(n, c) BY <2>0
  <2> QED BY <2>1 DEF Arrival, KeptInv
<1>3. ASSUME NEW n \in Ids, Works(n) PROVE KeptInv' BY <1>3, EntityOfWorks
<1> QED BY <1>1, <1>2, <1>3 DEF Next

\* The entity holds what the pushed jobs were to make of it, one after the other, but for
\* names that begin others, unless git-commit wrote over an entity it had not seen
\* (.gitlab-ci-aws-iac-eks.yml).
THEOREM EntityIsKept == Spec => []EntityKept
<1>1. Init => KeptInv
  <2> SUFFICES ASSUME Init PROVE KeptInv OBVIOUS
  <2>1. ledger = tree.entity BY DEF Init
  <2>2. tree = NewTree \/ tree = DeployedTree BY DEF Init
  <2>3. IsEntity(tree.entity) BY <2>2, NewTreeIsTree DEF NewTree, DeployedTree, IsEntity, IsTree
  <2> QED BY <2>1, <2>3 DEF KeptInv, Held, HoldsAllOf
<1>2. KeptInv => EntityKept BY DEF KeptInv, Held, EntityKept
<1> QED BY <1>1, <1>2, EntityNext, Invariance, PTL DEF Spec

-------------------------------------------------------------------------------
(* Scheduled until pushed. *)

\* The job of a provider is in the stage file and the rules include it.
LEMMA ProviderJobs ==
  ASSUME Inv, NEW n \in Ids, NEW kind, NEW p \in Provs, <<kind, p>> \in Jobs,
         job[n][<<kind, p>>] # "absent"
  PROVE  /\ Started(n) /\ Valid(commit[n]) /\ p \in commit[n].tree.jobs
         /\ kind \in JobsOf(template)
         /\ Includes(template, kind, commit[n].title, commit[n].iac, Named(commit[n], p))
<1> DEFINE j == <<kind, p>>
<1>1. Started(n) /\ Valid(commit[n]) /\ StartsJob(commit[n], j) BY DEF Inv, JobsStarted
<1>2. j[1] = kind /\ j[2] = p /\ j \notin {StagesJobName, BindingJobName, DestroyJobName}
  BY NoneAssumption DEF StagesJobName, BindingJobName, DestroyJobName
<1> HIDE DEF j
<1> QED BY <1>1, <1>2 DEF StartsJob, Includes

\* The jobs of no provider.
LEMMA NamedJobs ==
  /\ BindingJobName[1] = "binding" /\ DestroyJobName[1] = "destroy" /\ StagesJobName[1] = "stages"
  /\ BindingJobName # StagesJobName /\ BindingJobName # DestroyJobName
  /\ StagesJobName # DestroyJobName
BY DEF StagesJobName, BindingJobName, DestroyJobName

\* The jobs of the resource bindings and the destructions are those of such commits.
LEMMA OfTitle ==
  ASSUME Inv, NEW n \in Ids
  PROVE  /\ job[n][BindingJobName] # "absent" => commit[n].title \in {"bind", "unbind"}
         /\ job[n][DestroyJobName] # "absent" => commit[n].title = "destroy"
<1>1. JobsOf(template) \subseteq Kinds BY JobsAreKinds DEF Inv, Shape
<1>2. "binding" \notin JobsOf(template) /\ "destroy" \notin JobsOf(template)
  BY <1>1 DEF Kinds
<1>3. \A j \in Jobs : job[n][j] # "absent" => StartsJob(commit[n], j) BY DEF Inv, JobsStarted
<1> QED BY <1>2, <1>3, NamedJobs, JobNames DEF StartsJob, Includes

\* A job that is not the binding or the destruction itself leaves the temporary files.
LEMMA ScheduledElsewhere ==
  ASSUME Inv, ScheduledUntilPushed, NEW n \in Ids, NEW j \in Jobs, NEW st, JobStep(n, j, st),
         st = "pushed" => j \notin {BindingJobName, DestroyJobName},
         tree'.binding = tree.binding, tree'.destroy = tree.destroy
  PROVE  ScheduledUntilPushed'
<1>1. /\ job'[n][j] = st
      /\ \A m \in Ids, k \in Jobs : m # n \/ k # j => job'[m][k] = job[m][k]
  BY BecomesFacts DEF JobStep, Inv, Shape
<1>2. commit' = commit /\ job[n][j] # "pushed" BY DEF JobStep
<1>3. \A m \in Ids, k \in {BindingJobName, DestroyJobName} :
        job'[m][k] = "pushed" <=> job[m][k] = "pushed"
  BY <1>1, <1>2, JobNames
<1> QED BY <1>2, <1>3 DEF ScheduledUntilPushed

\* The temporary file goes with the push of its own job and not before.
LEMMA ScheduledOfWorks ==
  ASSUME Inv, ScheduledUntilPushed, NEW n \in Ids, Works(n), ~CreateCiStages(n)
  PROVE  ScheduledUntilPushed'
<1>0. IsTree(tree) BY DEF Inv, Shape
<1>1. CASE BindResource(n)
  <2>1. job[n][BindingJobName] = "waiting" BY <1>1 DEF BindResource, Ready
  <2>2. PICK st : JobStep(n, BindingJobName, st) BY <1>1, BindResourceStep
  <2>3. CASE IsRefused(n, BindingJobName)
    <3>1. job'[n][BindingJobName] = st BY <2>2, BecomesFacts, JobNames DEF JobStep, Inv, Shape
    <3>2. job'[n][BindingJobName] = "refused" /\ tree' = tree
      BY <2>3, BecomesFacts, JobNames DEF IsRefused, Inv, Shape, Status
    <3> QED BY <2>2, <3>1, <3>2, ScheduledElsewhere, JobNames
  <2>4. CASE Pushes(n, BindingJobName,
               [WithEntity(commit[n].tree, BoundOrNot(commit[n], commit[n].tree.entity))
                  EXCEPT !.binding = None])
    <3> DEFINE t == WithEntity(tree, BoundOrNot(commit[n], tree.entity))
               u == [t EXCEPT !.binding = None]
    <3>1. tree' = u BY <2>1, <2>4, PushedFrom, JobNames DEF Pushes
    <3>2. IsTree(t) /\ t.destroy = tree.destroy BY <1>0, EntitySet DEF WithEntity
    <3>3. u.binding = None /\ u.destroy = t.destroy BY <3>2, BindingCleared
    <3> HIDE DEF t, u
    <3>4. job'[n][BindingJobName] = "pushed"
          /\ \A m \in Ids, k \in Jobs : m # n \/ k # BindingJobName => job'[m][k] = job[m][k]
      BY <2>4, BecomesFacts, JobNames DEF Pushes, Inv, Shape, Status
    <3>5. commit' = commit BY <2>2 DEF JobStep
    <3>6. tree.binding = n BY <2>1, OfTitle DEF ScheduledUntilPushed
    <3>7. \A m \in Ids : commit[m].title \in {"bind", "unbind"} => job'[m][BindingJobName] = "pushed"
      BY <3>4, <3>6, JobNames DEF ScheduledUntilPushed
    <3>8. \A m \in Ids : job'[m][DestroyJobName] = job[m][DestroyJobName]
      BY <3>4, JobNames, NamedJobs
    <3>9. tree'.binding = None /\ tree'.destroy = tree.destroy BY <3>1, <3>2, <3>3
    <3> QED BY <3>5, <3>7, <3>8, <3>9, NoneAssumption DEF ScheduledUntilPushed
  <2> QED BY <1>1, <2>3, <2>4 DEF BindResource
<1>2. CASE DestroyTf(n)
  <2>1. job[n][DestroyJobName] = "waiting" BY <1>2 DEF DestroyTf, Ready
  <2>2. PICK st : JobStep(n, DestroyJobName, st) BY <1>2, DestroyTfStep
  <2>3. CASE IsRefused(n, DestroyJobName)
    <3>1. job'[n][DestroyJobName] = st BY <2>2, BecomesFacts, JobNames DEF JobStep, Inv, Shape
    <3>2. job'[n][DestroyJobName] = "refused" /\ tree' = tree
      BY <2>3, BecomesFacts, JobNames DEF IsRefused, Inv, Shape, Status
    <3> QED BY <2>2, <3>1, <3>2, ScheduledElsewhere, JobNames
  <2>4. CASE Pushes(n, DestroyJobName,
               [WithEntity(commit[n].tree,
                           NoLonger(commit[n].tree.entity, EnvOf[commit[n].subject]))
                  EXCEPT !.destroy = None])
    <3> DEFINE t == WithEntity(tree, NoLonger(tree.entity, EnvOf[commit[n].subject]))
               u == [t EXCEPT !.destroy = None]
    <3>1. tree' = u BY <2>1, <2>4, PushedFrom, JobNames DEF Pushes
    <3>2. IsTree(t) /\ t.binding = tree.binding BY <1>0, EntitySet DEF WithEntity
    <3>3. u.destroy = None /\ u.binding = t.binding BY <3>2, DestroyCleared
    <3> HIDE DEF t, u
    <3>4. job'[n][DestroyJobName] = "pushed"
          /\ \A m \in Ids, k \in Jobs : m # n \/ k # DestroyJobName => job'[m][k] = job[m][k]
      BY <2>4, BecomesFacts, JobNames DEF Pushes, Inv, Shape, Status
    <3>5. commit' = commit BY <2>2 DEF JobStep
    <3>6. tree.destroy = n BY <2>1, OfTitle DEF ScheduledUntilPushed
    <3>7. \A m \in Ids : commit[m].title = "destroy" => job'[m][DestroyJobName] = "pushed"
      BY <3>4, <3>6, JobNames DEF ScheduledUntilPushed
    <3>8. \A m \in Ids : job'[m][BindingJobName] = job[m][BindingJobName]
      BY <3>4, JobNames, NamedJobs
    <3>9. tree'.destroy = None /\ tree'.binding = tree.binding BY <3>1, <3>2, <3>3
    <3> QED BY <3>5, <3>7, <3>8, <3>9, NoneAssumption DEF ScheduledUntilPushed
  <2> QED BY <1>2, <2>3, <2>4 DEF DestroyTf
<1>3. ASSUME NEW p \in Provs, DeployIac(n, p) PROVE ScheduledUntilPushed'
  <2>1. job[n][<<"iac", p>>] = "waiting" BY <1>3 DEF DeployIac, Ready
  <2>2. PICK st : JobStep(n, <<"iac", p>>, st) BY <1>3, DeployIacStep
  <2>3. <<"iac", p>> \in Jobs BY JobNames DEF Kinds
  <2>4. <<"iac", p>> \notin {BindingJobName, DestroyJobName} BY DEF BindingJobName, DestroyJobName
  <2>5. CASE tree' = tree BY <2>2, <2>3, <2>4, <2>5, ScheduledElsewhere
  <2>6. CASE /\ commit[n].sha = head
             /\ tree' = WithEntity(commit[n].tree, Detailed(commit[n].tree.entity, p))
    <3>1. tree' = WithEntity(tree, Detailed(tree.entity, p)) BY <2>1, <2>3, <2>6, PushedFrom
    <3>2. tree'.binding = tree.binding /\ tree'.destroy = tree.destroy
      BY <1>0, <3>1, EntitySet DEF WithEntity
    <3> QED BY <2>2, <2>3, <2>4, <3>2, ScheduledElsewhere
  <2> QED BY <1>3, <2>5, <2>6 DEF DeployIac, Pushes, IsRefused
<1>4. ASSUME NEW p \in Provs, CommitWrites(n, p) PROVE ScheduledUntilPushed'
  <2>2. PICK st : JobStep(n, <<"commit", p>>, st) BY <1>4, CommitWritesStep
  <2>3. <<"commit", p>> \in Jobs BY JobNames DEF Kinds
  <2>4. <<"commit", p>> \notin {BindingJobName, DestroyJobName}
    BY DEF BindingJobName, DestroyJobName
  <2>5. tree' = tree \/ tree' = WithEntity(tree, Detailed(seen[n][p], p))
    BY <1>4 DEF CommitWrites
  <2>6. tree'.binding = tree.binding /\ tree'.destroy = tree.destroy
    <3> DEFINE u == WithEntity(tree, Detailed(seen[n][p], p))
    <3>1. u.binding = tree.binding /\ u.destroy = tree.destroy
      BY <1>0, EntitySet DEF WithEntity
    <3> HIDE DEF u
    <3> QED BY <2>5, <3>1 DEF u
  <2> QED BY <2>2, <2>3, <2>4, <2>6, ScheduledElsewhere
<1>5. ASSUME NEW p \in Provs,
             GetAwsCreds(n, p) \/ Build(n, p) \/ DeleteAwsCreds(n, p) \/ CommitReads(n, p)
      PROVE  ScheduledUntilPushed'
  <2>0. PICK kind \in Kinds : \E st : JobStep(n, <<kind, p>>, st)
    BY <1>5, GetAwsCredsStep, BuildStep, DeleteAwsCredsStep, CommitReadsStep DEF Kinds
  <2>1. PICK st : JobStep(n, <<kind, p>>, st) BY <2>0
  <2>2. <<kind, p>> \notin {BindingJobName, DestroyJobName} /\ <<kind, p>> \in Jobs
    BY JobNames DEF BindingJobName, DestroyJobName, Kinds
  <2>3. tree' = tree BY <1>5 DEF GetAwsCreds, Build, DeleteAwsCreds, CommitReads
  <2> QED BY <2>1, <2>2, <2>3, ScheduledElsewhere
<1>6. ASSUME NEW j \in Jobs, Fails(n, j) PROVE ScheduledUntilPushed'
  <2>1. JobStep(n, j, "failed") /\ tree' = tree BY <1>6, FailsStep DEF Fails
  <2> QED BY <2>1, ScheduledElsewhere
<1> QED BY <1>1, <1>2, <1>3, <1>4, <1>5, <1>6 DEF Works

\* Every step keeps this.
LEMMA ScheduledNext ==
  Inv /\ ScheduledUntilPushed /\ [Next]_vars => ScheduledUntilPushed'
<1> SUFFICES ASSUME Inv, ScheduledUntilPushed, [Next]_vars PROVE ScheduledUntilPushed' OBVIOUS
<1>1. CASE vars' = vars BY <1>1 DEF vars, ScheduledUntilPushed
<1>2. CASE Promote \/ Bind \/ Destroy \/ Develop
  <2>0. PICK n \in Ids : \E c : Arrival(n, c) BY <1>2, OutsideSteps
  <2>1. PICK c : Arrival(n, c) BY <2>0
  <2>2. /\ commit'[n] = c
        /\ \A m \in Ids \ {n} : commit'[m] = commit[m] /\ job'[m] = job[m]
        /\ \A j \in Jobs : job'[n][j] = JobsOfCommit(c)[j]
    BY <2>1, StartFacts DEF Arrival, Inv, Shape
  <2>3. job'[n][BindingJobName] # "pushed" /\ job'[n][DestroyJobName] # "pushed"
    BY <2>2, JobsOfCommitFacts, JobNames
  <2>4. c.title \in {"bind", "unbind"} => tree.binding = None /\ tree'.binding = n
    BY <2>1 DEF Arrival
  <2>5. c.title \notin {"bind", "unbind"} => tree'.binding = tree.binding BY <2>1 DEF Arrival
  <2>6. c.title = "destroy" => tree.destroy = None /\ tree'.destroy = n BY <2>1 DEF Arrival
  <2>7. c.title # "destroy" => tree'.destroy = tree.destroy BY <2>1 DEF Arrival
  <2> SUFFICES ASSUME NEW m \in Ids
               PROVE  /\ commit'[m].title \in {"bind", "unbind"} =>
                           (tree'.binding = m <=> job'[m][BindingJobName] # "pushed")
                      /\ commit'[m].title = "destroy" =>
                           (tree'.destroy = m <=> job'[m][DestroyJobName] # "pushed")
    BY DEF ScheduledUntilPushed
  <2>8. CASE m = n BY <2>2, <2>3, <2>4, <2>6, <2>8
  <2>9. CASE m # n
    <3>1. commit'[m] = commit[m] /\ job'[m] = job[m] BY <2>2, <2>9
    <3>2. /\ commit[m].title \in {"bind", "unbind"} =>
               (tree.binding = m <=> job[m][BindingJobName] # "pushed")
          /\ commit[m].title = "destroy" =>
               (tree.destroy = m <=> job[m][DestroyJobName] # "pushed")
      BY DEF ScheduledUntilPushed
    <3>3. tree'.binding = m <=> tree.binding = m BY <2>4, <2>5, <2>9, NoneAssumption
    <3>4. tree'.destroy = m <=> tree.destroy = m BY <2>6, <2>7, <2>9, NoneAssumption
    <3> QED BY <3>1, <3>2, <3>3, <3>4
  <2> QED BY <2>8, <2>9
<1>3. ASSUME NEW n \in Ids, Works(n), ~CreateCiStages(n) PROVE ScheduledUntilPushed'
  BY <1>3, ScheduledOfWorks
<1>4. ASSUME NEW n \in Ids, CreateCiStages(n) PROVE ScheduledUntilPushed'
  <2>1. job[n][StagesJobName] = "waiting" BY <1>4, SpawnIsOfWaiting
  <2>2. StagesJobName \notin {BindingJobName, DestroyJobName} /\ StagesJobName \in Jobs
    BY NamedJobs, JobNames
  <2>3. commit[n].sha = head =>
          LET t == StagesCommit(n).tree IN t.binding = tree.binding /\ t.destroy = tree.destroy
    BY <2>1, <2>2, PushedFrom, StagesTree
  <2>4. CASE JobStep(n, StagesJobName, "pushed") /\ tree' = StagesCommit(n).tree
    <3>1. commit[n].sha = head BY <2>2, <2>4, NamedJobs DEF JobStep
    <3> QED BY <2>2, <2>3, <2>4, <3>1, ScheduledElsewhere
  <2>5. CASE JobStep(n, StagesJobName, "refused") /\ tree' = tree
    BY <2>2, <2>5, ScheduledElsewhere
  <2>6. CASE CreatesAndStarts(n)
    <3> DEFINE new == NextId
               c == StagesCommit(n)
    <3>1. /\ commit'[new] = c
          /\ \A m \in Ids \ {new} : commit'[m] = commit[m]
          /\ \A m \in Ids \ {new}, k \in Jobs :
               m # n \/ k # StagesJobName => job'[m][k] = job[m][k]
      BY <2>1, <2>6, SpawnFacts
    <3>2. c.title = "added" BY DEF StagesCommit
    <3>3. commit[n].sha = head /\ tree' = c.tree BY <2>6 DEF CreatesAndStarts
    <3>4. tree'.binding = tree.binding /\ tree'.destroy = tree.destroy BY <2>3, <3>3
    <3> HIDE DEF new, c
    <3>5. \A m \in Ids \ {new}, k \in {BindingJobName, DestroyJobName} : job'[m][k] = job[m][k]
      BY <2>2, <3>1, JobNames
    <3> QED BY <3>1, <3>2, <3>4, <3>5 DEF ScheduledUntilPushed
  <2>7. JobStep(n, StagesJobName, "refused") => tree' = tree
    <3> SUFFICES ASSUME JobStep(n, StagesJobName, "refused") PROVE tree' = tree OBVIOUS
    <3>1. job'[n][StagesJobName] = "refused"
      BY <2>2, BecomesFacts DEF JobStep, Inv, Shape
    <3>2. CASE IsRefused(n, StagesJobName) BY <3>2 DEF IsRefused
    <3>3. CASE commit[n].sha = head /\ ~IsRefused(n, StagesJobName)
      <4>1. CreatesAndStarts(n) \/ Becomes(n, StagesJobName, "pushed")
        BY <1>4, <3>3 DEF CreateCiStages, CreatesAndStarts, StagesCommit
      <4>2. Becomes(n, StagesJobName, "pushed") => job'[n][StagesJobName] = "pushed"
        BY <2>2, BecomesFacts DEF Inv, Shape, Status
      <4>3. CreatesAndStarts(n) => job'[n][StagesJobName] = "pushed" BY <2>1, SpawnFacts
      <4> QED BY <3>1, <4>1, <4>2, <4>3
    <3> QED BY <1>4, <3>2, <3>3 DEF CreateCiStages
  <2> QED BY <1>4, <2>4, <2>5, <2>6, <2>7, CreateCiStagesStep
<1> QED BY <1>1, <1>2, <1>3, <1>4 DEF Next

\* Nothing is scheduled at first.
LEMMA ScheduledInit == Init => ScheduledUntilPushed
<1> SUFFICES ASSUME Init, NEW n \in Ids
             PROVE  commit[n].title \notin {"bind", "unbind", "destroy"}
  BY DEF ScheduledUntilPushed
<1> QED BY DEF Init, NewCommit, NoCommit

\* A temporary file is on main exactly until its own job has pushed (bind-resource.sh,
\* unbind-resource.sh, destroy-tf.sh).
THEOREM Scheduled == Spec => []ScheduledUntilPushed
BY ScheduledInit, ScheduledNext, Invariance, PTL DEF Spec

-------------------------------------------------------------------------------
(* No destruction after the stages. *)

\* Only an application made with Terraform is destroyed.
DestroyOfTerraform == \A n \in Ids : commit[n].title = "destroy" => template = "tfNodejs"

\* Every step keeps this.
LEMMA DestroyOfTerraformNext ==
  Inv /\ DestroyOfTerraform /\ [Next]_vars => DestroyOfTerraform'
<1> SUFFICES ASSUME Inv, DestroyOfTerraform, [Next]_vars PROVE DestroyOfTerraform' OBVIOUS
<1>1. CASE vars' = vars BY <1>1 DEF vars, DestroyOfTerraform
<1>2. ASSUME NEW n \in Ids, NEW c, Arrival(n, c) PROVE DestroyOfTerraform'
  <2>1. /\ commit'[n] = c /\ \A m \in Ids \ {n} : commit'[m] = commit[m]
    BY <1>2, StartFacts DEF Arrival, Inv, Shape
  <2>2. template' = template /\ (c.title = "destroy" => template = "tfNodejs")
    BY <1>2 DEF Arrival
  <2> QED BY <2>1, <2>2 DEF DestroyOfTerraform
<1>3. ASSUME NEW n \in Ids, CreatesAndStarts(n), job[n][StagesJobName] = "waiting"
      PROVE DestroyOfTerraform'
  <2>1. /\ commit'[NextId] = StagesCommit(n)
        /\ \A m \in Ids \ {NextId} : commit'[m] = commit[m]
    BY <1>3, SpawnFacts
  <2>2. template' = template /\ StagesCommit(n).title = "added"
    BY <1>3 DEF CreatesAndStarts, StagesCommit
  <2> QED BY <2>1, <2>2 DEF DestroyOfTerraform
<1>4. ASSUME NEW n \in Ids, NEW j \in Jobs, NEW st, JobStep(n, j, st) PROVE DestroyOfTerraform'
  BY <1>4 DEF JobStep, DestroyOfTerraform
<1> QED BY <1>1, <1>2, <1>3, <1>4, Steps

\* It holds in every behaviour.
LEMMA DestroyOfTerraformInvariance == Spec => []DestroyOfTerraform
<1>1. Init => DestroyOfTerraform BY DEF Init, DestroyOfTerraform, NewCommit, NoCommit
<1> QED BY <1>1, DestroyOfTerraformNext, Invariance, PTL DEF Spec

\* The destruction of an infrastructure is in no pipeline of an application that has a
\* stage file, that is, of none that has been deployed.
DestroyedBeforeStaged ==
  \A n \in Ids : job[n][DestroyJobName] # "absent" => commit[n].tree.jobs = {}

\* The job that is to destroy the infrastructure of a provider is in no pipeline once a
\* provider has its stage file: GitLab refuses the pipeline, delete-aws-creds needing a
\* build-image that is left out (.gitlab-ci-aws-image-kaniko.yml).
THEOREM DestroyNeverFollowsStages == Spec => []DestroyedBeforeStaged
<1>1. Inv /\ DestroyOfTerraform => DestroyedBeforeStaged
  <2> SUFFICES ASSUME Inv, DestroyOfTerraform, NEW n \in Ids, job[n][DestroyJobName] # "absent",
                      commit[n].tree.jobs # {}
               PROVE  FALSE
    BY DEF DestroyedBeforeStaged
  <2>1. commit[n].title = "destroy" BY OfTitle
  <2>2. template \in Plain BY <2>1 DEF DestroyOfTerraform, Plain
  <2>3. Valid(commit[n]) BY JobNames DEF Inv, JobsStarted
  <2> QED BY <2>1, <2>2, <2>3, DestroyNeedsFail DEF Valid
<1> QED BY <1>1, Invariance, DestroyOfTerraformInvariance, PTL

-------------------------------------------------------------------------------
(* The credentials are the pipeline's own. *)

\* The template has credentials in CI/CD variables.
HasCreds == "creds" \in JobsOf(template)

\* The job that takes the credentials away.
LastKind == IF "commit" \in JobsOf(template) THEN "commit" ELSE "clean"

\* Where a provider stands in a pipeline: credentials, image, last job.
InOrder(n, p) ==
  LET first == job[n][<<"creds", p>>]
      build == job[n][<<"build", p>>]
      last == job[n][<<LastKind, p>>]
  IN /\ first \in {"absent", "waiting", "done", "failed"}
     /\ build \notin {"absent", "waiting"} => first = "done"
     /\ last \notin {"absent", "waiting"} => build \notin {"absent", "waiting"}
     /\ first = "done" /\ last \in {"waiting", "reading"} => creds[p] = n
     /\ creds[p] = n =>
          \/ first = "failed"
          \/ first = "done" /\ last \in {"waiting", "reading"}
          \/ first = "done" /\ last = "failed" /\ "clean" \in JobsOf(template)

\* What CredentialsAreOwn needs: the order of the three jobs, which makes the variables
\* the pipeline's own when its last job runs.
CredsInv ==
  \A p \in Provs :
    /\ ~HasCreds => creds[p] = None
    /\ HasCreds => \A n \in Ids : InOrder(n, p)

\* The last job needs the image, which needs the credentials.
LEMMA LastJob ==
  ASSUME template \in TemplateNames, HasCreds
  PROVE  /\ LastKind \in {"clean", "commit"} /\ LastKind \in JobsOf(template)
         /\ "build" \in JobsOf(template)
         /\ \/ LastKind = "clean" /\ template \in Plain
            \/ LastKind = "commit" /\ template \in Kubernetes
         /\ StageFile[template]["build"] = {"creds"} /\ StageFile[template][LastKind] = {"build"}
<1>1. CASE template \in Plain
  <2>1. LastKind = "clean" BY <1>1, PlainJobs DEF LastKind
  <2> QED BY <1>1, <2>1, PlainJobs, PlainNeeds
<1>2. CASE template \in Kubernetes
  <2>1. LastKind = "commit" BY <1>2, KubernetesJobs DEF LastKind
  <2> QED BY <1>2, <2>1, KubernetesJobs, KubernetesNeeds
<1> QED BY <1>1, <1>2, WhoHasCreds DEF HasCreds

\* The three jobs are in a pipeline together or not at all.
LEMMA Together ==
  ASSUME Inv, DestroyOfTerraform, HasCreds, NEW n \in Ids, NEW p \in Provs
  PROVE  \A k, l \in {"creds", "build", LastKind} :
           job[n][<<k, p>>] # "absent" => job[n][<<l, p>>] # "absent"
<1> SUFFICES ASSUME NEW k \in {"creds", "build", LastKind}, NEW l \in {"creds", "build", LastKind},
                    job[n][<<k, p>>] # "absent"
             PROVE  job[n][<<l, p>>] # "absent"
  OBVIOUS
<1>0. template \in TemplateNames BY DEF Inv, Shape
<1>1. {"creds", "build", LastKind} \subseteq Kinds /\ {"creds", "build", LastKind} \subseteq JobsOf(template)
  BY <1>0, LastJob DEF Kinds, HasCreds
<1> DEFINE c == commit[n]
<1>2. <<k, p>> \in Jobs /\ <<l, p>> \in Jobs BY <1>1, JobNames
<1>3. /\ Started(n) /\ Valid(c) /\ p \in c.tree.jobs
      /\ Includes(template, k, c.title, c.iac, Named(c, p))
  BY <1>2, ProviderJobs
<1>4. c.title # "generate"
  BY <1>0, <1>3, LastJob
     DEF Includes, CredsRule, KanikoBuildRule, SpringbootBuildRule, CleanRule, CommitRule
<1>5. c.title # "destroy"
  <2> SUFFICES ASSUME c.title = "destroy" PROVE FALSE OBVIOUS
  <2>1. template \in Plain BY DEF DestroyOfTerraform, Plain
  <2> QED BY <2>1, <1>3, DestroyNeedsFail DEF Valid
<1>6. Includes(template, l, c.title, c.iac, Named(c, p))
  BY <1>0, <1>1, <1>4, <1>5, LastJob
     DEF Includes, CredsRule, KanikoBuildRule, CleanRule, CommitRule, HasCreds
<1>7. StartsJob(c, <<l, p>>) BY <1>3, <1>6 DEF StartsJob
<1> QED BY <1>2, <1>3, <1>7 DEF Inv, JobsStarted

\* The three jobs.
LEMMA KeyJobs ==
  ASSUME template \in TemplateNames, HasCreds
  PROVE  /\ LastKind \in Kinds
         /\ \A k \in {"creds", "build", LastKind}, p \in Provs : <<k, p>> \in Jobs
         /\ LastKind # "creds" /\ LastKind # "build"
<1>1. LastKind \in {"clean", "commit"} BY LastJob
<1> QED BY <1>1, JobNames DEF Kinds

\* A job that needs another runs after it.
LEMMA ReadyNeeds ==
  ASSUME NEW n \in Ids, NEW k, NEW l, NEW p \in Provs,
         StageFile[template][k] = {l}, Ready(n, <<k, p>>)
  PROVE  Over(n, <<l, p>>)
<1> DEFINE j == <<k, p>>
<1>1. j[1] = k /\ j[2] = p /\ p # None BY NoneAssumption
<1> HIDE DEF j
<1>2. \A kind \in {l} : Over(n, <<kind, j[2]>>) BY <1>1 DEF Ready, j
<1> QED BY <1>1, <1>2

\* The image is built with credentials that have been stored.
LEMMA BuildReady ==
  ASSUME Inv, DestroyOfTerraform, CredsInv, HasCreds, NEW n \in Ids, NEW p \in Provs,
         Ready(n, <<"build", p>>)
  PROVE  job[n][<<"creds", p>>] = "done"
<1>0. template \in TemplateNames BY DEF Inv, Shape
<1>1. Over(n, <<"creds", p>>) BY <1>0, LastJob, ReadyNeeds
<1>2. job[n][<<"build", p>>] # "absent" BY DEF Ready
<1>3. job[n][<<"creds", p>>] # "absent" BY <1>2, Together
<1>4. job[n][<<"creds", p>>] \in {"absent", "waiting", "done", "failed"}
  BY DEF CredsInv, InOrder
<1> QED BY <1>1, <1>3, <1>4 DEF Over

\* The last job finds the credentials of its own pipeline.
LEMMA LastReady ==
  ASSUME Inv, DestroyOfTerraform, CredsInv, HasCreds, NEW n \in Ids, NEW p \in Provs,
         Ready(n, <<LastKind, p>>)
  PROVE  /\ job[n][<<"build", p>>] \notin {"absent", "waiting"}
         /\ job[n][<<"creds", p>>] = "done"
         /\ creds[p] = n
<1>0. template \in TemplateNames BY DEF Inv, Shape
<1>1. Over(n, <<"build", p>>) BY <1>0, LastJob, ReadyNeeds
<1>2. job[n][<<LastKind, p>>] = "waiting" BY DEF Ready
<1>3. job[n][<<"build", p>>] # "absent" BY <1>2, Together
<1>4. job[n][<<"build", p>>] \notin {"absent", "waiting"} BY <1>1, <1>3 DEF Over
<1> QED BY <1>2, <1>4 DEF CredsInv, InOrder

\* A provider whose three jobs and credentials stay is where it was.
LEMMA Elsewhere ==
  ASSUME NEW m \in Ids, NEW q \in Provs, InOrder(m, q), template' = template,
         \A k \in {"creds", "build", LastKind} : job'[m][<<k, q>>] = job[m][<<k, q>>],
         creds'[q] = m <=> creds[q] = m
  PROVE  InOrder(m, q)'
<1>1. LastKind' = LastKind /\ JobsOf(template)' = JobsOf(template) BY DEF LastKind
<1> QED BY <1>1 DEF InOrder

\* One job changed.
LEMMA OneJob ==
  ASSUME Inv, DestroyOfTerraform, CredsInv, NEW n \in Ids, NEW kind \in Kinds, NEW p \in Provs, NEW st,
         JobStep(n, <<kind, p>>, st),
         HasCreds => InOrder(n, p)',
         HasCreds => \A m \in Ids, q \in Provs : m # n \/ q # p => (creds'[q] = m <=> creds[q] = m),
         ~HasCreds => \A q \in Provs : creds'[q] = None
  PROVE  CredsInv'
<1>0. template \in TemplateNames BY DEF Inv, Shape
<1> DEFINE j == <<kind, p>>
<1>1. j \in Jobs BY JobNames
<1>2. \A m \in Ids, k \in Jobs : m # n \/ k # j => job'[m][k] = job[m][k]
  BY <1>1, BecomesFacts DEF JobStep, Inv, Shape
<1>3. template' = template BY DEF JobStep
<1>4. HasCreds' <=> HasCreds BY <1>3 DEF HasCreds
<1>5. ASSUME HasCreds, NEW m \in Ids, NEW q \in Provs PROVE InOrder(m, q)'
  <2>1. CASE m = n /\ q = p BY <1>5, <2>1
  <2>2. CASE m # n \/ q # p
    <3>1. \A k \in {"creds", "build", LastKind} : <<k, q>> \in Jobs BY <1>0, <1>5, KeyJobs
    <3>2. \A k : m # n \/ <<k, q>> # j BY <2>2
    <3>3. \A k \in {"creds", "build", LastKind} : job'[m][<<k, q>>] = job[m][<<k, q>>]
      BY <1>2, <3>1, <3>2
    <3>4. InOrder(m, q) BY <1>5 DEF CredsInv
    <3> QED BY <1>3, <1>5, <2>2, <3>3, <3>4, Elsewhere
  <2> QED BY <2>1, <2>2
<1> QED BY <1>4, <1>5 DEF CredsInv

\* The statuses after a step.
LEMMA NewValues ==
  ASSUME Inv, HasCreds, NEW n \in Ids, NEW kind \in Kinds, NEW p \in Provs, NEW st,
         JobStep(n, <<kind, p>>, st)
  PROVE  /\ job'[n][<<kind, p>>] = st
         /\ \A k \in {"creds", "build", LastKind} \ {kind} : job'[n][<<k, p>>] = job[n][<<k, p>>]
         /\ LastKind' = LastKind /\ JobsOf(template)' = JobsOf(template)
<1>0. template \in TemplateNames BY DEF Inv, Shape
<1>1. template' = template BY DEF JobStep
<1>2. <<kind, p>> \in Jobs BY JobNames
<1>3. /\ job'[n][<<kind, p>>] = st
      /\ \A k \in Jobs : k # <<kind, p>> => job'[n][k] = job[n][k]
  BY <1>2, BecomesFacts DEF JobStep, Inv, Shape
<1>4. \A k \in {"creds", "build", LastKind} : <<k, p>> \in Jobs BY <1>0, KeyJobs
<1> QED BY <1>1, <1>3, <1>4 DEF LastKind

\* get-aws-creds keeps the order.
LEMMA CredsOfGet ==
  ASSUME Inv, DestroyOfTerraform, CredsInv, NEW n \in Ids, NEW p \in Provs, GetAwsCreds(n, p)
  PROVE  CredsInv'
<1>0. template \in TemplateNames /\ creds \in [Provs -> Ids \cup {None}] BY DEF Inv, Shape
<1>1. job[n][<<"creds", p>>] = "waiting" BY DEF GetAwsCreds, Ready
<1>2. HasCreds BY <1>1, ProviderJobs, JobNames DEF HasCreds, Kinds
<1>3. PICK st : JobStep(n, <<"creds", p>>, st) BY GetAwsCredsStep
<1>4. InOrder(n, p) BY <1>2 DEF CredsInv
<1>5. \A k \in {"build", LastKind} : job[n][<<k, p>>] = "waiting"
  <2>1. \A k \in {"build", LastKind} : job[n][<<k, p>>] # "absent" BY <1>1, <1>2, Together
  <2> QED BY <1>1, <1>4, <2>1 DEF InOrder
<1>6. /\ job'[n][<<"creds", p>>] = st
      /\ job'[n][<<"build", p>>] = "waiting" /\ job'[n][<<LastKind, p>>] = "waiting"
      /\ LastKind' = LastKind
  BY <1>0, <1>2, <1>3, <1>5, NewValues, KeyJobs DEF Kinds
<1>7. \/ st = "done" /\ creds[p] = None /\ creds' = [creds EXCEPT ![p] = n]
      \/ st = "failed" /\ creds[p] = None /\ creds' = [creds EXCEPT ![p] = n]
      \/ st = "failed" /\ creds' = creds
  <2>1. \A s \in Status : Becomes(n, <<"creds", p>>, s) => job'[n][<<"creds", p>>] = s
    BY BecomesFacts, JobNames DEF Inv, Shape, Kinds
  <2> QED BY <1>6, <2>1 DEF GetAwsCreds, Status
<1>8. InOrder(n, p)' BY <1>0, <1>6, <1>7 DEF InOrder
<1>9. \A m \in Ids, q \in Provs : m # n \/ q # p => (creds'[q] = m <=> creds[q] = m)
  BY <1>0, <1>7, NoneAssumption
<1> QED BY <1>2, <1>3, <1>8, <1>9, OneJob DEF Kinds

\* So do the jobs that leave the credentials alone.
LEMMA CredsOfBuild ==
  ASSUME Inv, DestroyOfTerraform, CredsInv, NEW n \in Ids, NEW p \in Provs,
         NEW kind \in {"build", "sam", "iac", "deploy"}, NEW st,
         Ready(n, <<kind, p>>) \/ job[n][<<kind, p>>] = "reading",
         JobStep(n, <<kind, p>>, st), creds' = creds
  PROVE  CredsInv'
<1>0. template \in TemplateNames BY DEF Inv, Shape
<1>1. ASSUME HasCreds PROVE InOrder(n, p)'
  <2>1. InOrder(n, p) BY <1>1 DEF CredsInv
  <2>2. /\ job'[n][<<kind, p>>] = st
        /\ \A k \in {"creds", "build", LastKind} \ {kind} : job'[n][<<k, p>>] = job[n][<<k, p>>]
        /\ LastKind' = LastKind /\ JobsOf(template)' = JobsOf(template)
    <3>1. kind \in Kinds BY DEF Kinds
    <3> QED BY <1>1, <3>1, NewValues
  <2>3. LastKind \in {"clean", "commit"} BY <1>0, <1>1, LastJob
  <2>4. CASE kind = "build"
    <3>1. job[n][<<"creds", p>>] = "done" BY <1>1, <2>1, <2>4, BuildReady DEF InOrder
    <3>2. st \notin {"absent", "waiting"} BY DEF JobStep
    <3> QED BY <2>1, <2>2, <2>3, <2>4, <3>1, <3>2 DEF InOrder
  <2>5. CASE kind # "build"
    <3>1. \A k \in {"creds", "build", LastKind} : job'[n][<<k, p>>] = job[n][<<k, p>>]
      BY <2>2, <2>3, <2>5
    <3> QED BY <2>1, <3>1, Elsewhere DEF JobStep
  <2> QED BY <2>4, <2>5
<1> QED BY <1>1, OneJob DEF CredsInv, Kinds

\* The last job ends, and takes the credentials away if it does so well.
LEMMA CredsOfLast ==
  ASSUME Inv, DestroyOfTerraform, CredsInv, NEW n \in Ids, NEW p \in Provs,
         NEW kind \in {"clean", "commit"}, NEW st,
         Ready(n, <<kind, p>>) \/ job[n][<<kind, p>>] = "reading",
         JobStep(n, <<kind, p>>, st),
         \/ creds' = [creds EXCEPT ![p] = None] /\ st # "reading"
         \/ creds' = creds /\ st = "reading"
         \/ creds' = creds /\ st = "failed" /\ kind = "clean"
  PROVE  CredsInv'
<1>0. template \in TemplateNames /\ creds \in [Provs -> Ids \cup {None}] BY DEF Inv, Shape
<1>1. ASSUME ~HasCreds PROVE \A q \in Provs : creds'[q] = None
  BY <1>0, <1>1 DEF CredsInv
<1>2. ASSUME HasCreds
      PROVE  /\ InOrder(n, p)'
             /\ \A m \in Ids, q \in Provs : m # n \/ q # p => (creds'[q] = m <=> creds[q] = m)
  <2>0. job[n][<<kind, p>>] # "absent" BY DEF JobStep
  <2>1. kind \in JobsOf(template) BY <2>0, ProviderJobs, JobNames DEF Kinds
  <2>2. kind = LastKind
    <3>1. CASE kind = "commit" BY <2>1, <3>1 DEF LastKind
    <3>2. CASE kind = "clean"
      <4>1. template \in Plain BY <1>0, <2>1, <3>2, WhoCleans
      <4> QED BY <3>2, <4>1, PlainJobs DEF LastKind
    <3> QED BY <3>1, <3>2
  <2>3. InOrder(n, p) BY <1>2 DEF CredsInv
  <2>4. /\ job[n][<<"build", p>>] \notin {"absent", "waiting"}
        /\ job[n][<<"creds", p>>] = "done" /\ creds[p] = n
    <3>1. CASE Ready(n, <<kind, p>>) BY <1>2, <2>2, <3>1, LastReady
    <3>2. CASE job[n][<<kind, p>>] = "reading" BY <2>2, <2>3, <3>2 DEF InOrder
    <3> QED BY <3>1, <3>2
  <2>5. /\ job'[n][<<LastKind, p>>] = st
        /\ \A k \in {"creds", "build", LastKind} \ {LastKind} : job'[n][<<k, p>>] = job[n][<<k, p>>]
        /\ LastKind' = LastKind /\ JobsOf(template)' = JobsOf(template)
    BY <1>2, <2>2, NewValues DEF Kinds
  <2>6. LastKind # "creds" /\ LastKind # "build" BY <1>0, <1>2, KeyJobs
  <2>7. st \notin {"absent", "waiting"} BY DEF JobStep
  <2>8. InOrder(n, p)'
    <3>1. /\ job'[n][<<"creds", p>>] = "done" /\ job'[n][<<"build", p>>] = job[n][<<"build", p>>]
      BY <2>4, <2>5, <2>6
    <3>2. CASE creds' = [creds EXCEPT ![p] = None] /\ st # "reading"
      <4>1. creds'[p] # n BY <1>0, <3>2, NoneAssumption
      <4> QED BY <2>4, <2>5, <2>7, <3>1, <3>2, <4>1 DEF InOrder
    <3>3. CASE creds' = creds /\ st = "reading"
      BY <2>4, <2>5, <3>1, <3>3 DEF InOrder
    <3>4. CASE creds' = creds /\ st = "failed" /\ kind = "clean"
      BY <2>1, <2>4, <2>5, <3>1, <3>4 DEF InOrder
    <3> QED BY <3>2, <3>3, <3>4
  <2>9. \A m \in Ids, q \in Provs : m # n \/ q # p => (creds'[q] = m <=> creds[q] = m)
    BY <1>0, <2>4, NoneAssumption
  <2> QED BY <2>8, <2>9
<1> QED BY <1>1, <1>2, OneJob DEF Kinds

\* Jobs that are of no provider, and pipelines that start.
LEMMA CredsOfOthers ==
  ASSUME Inv, CredsInv, template' = template, creds' = creds,
         \A m \in Ids, k \in Kinds, q \in Provs :
           job'[m][<<k, q>>] = job[m][<<k, q>>]
           \/ (~Started(m) /\ job'[m][<<k, q>>] \in {"absent", "waiting"})
  PROVE  CredsInv'
<1>0. template \in TemplateNames BY DEF Inv, Shape
<1>1. HasCreds' <=> HasCreds BY DEF HasCreds
<1>2. ASSUME HasCreds, NEW m \in Ids, NEW q \in Provs PROVE InOrder(m, q)'
  <2>1. InOrder(m, q) BY <1>2 DEF CredsInv
  <2>2. {"creds", "build", LastKind} \subseteq Kinds BY <1>0, <1>2, KeyJobs DEF Kinds
  <2>3. CASE Started(m)
    <3>1. \A k \in {"creds", "build", LastKind} : job'[m][<<k, q>>] = job[m][<<k, q>>] BY <2>2, <2>3
    <3> QED BY <2>1, <3>1, Elsewhere
  <2>4. CASE ~Started(m)
    <3>1. \A k \in Kinds : job[m][<<k, q>>] = "absent"
      BY <2>4, JobNames, WaitingIsStarted
    <3>2. \A k \in {"creds", "build", LastKind} : job'[m][<<k, q>>] \in {"absent", "waiting"}
      BY <2>2, <3>1
    <3>3. creds[q] # m BY <2>1, <2>2, <3>1 DEF InOrder
    <3>4. LastKind' = LastKind BY DEF LastKind
    <3> QED BY <3>2, <3>3, <3>4 DEF InOrder
  <2> QED BY <2>3, <2>4
<1> QED BY <1>1, <1>2 DEF CredsInv

\* So do the jobs of no provider.
LEMMA CredsOfNamed ==
  ASSUME Inv, CredsInv, NEW n \in Ids, NEW j \in {StagesJobName, BindingJobName, DestroyJobName},
         NEW st, JobStep(n, j, st), creds' = creds
  PROVE  CredsInv'
<1>1. j \in Jobs BY JobNames
<1>2. \A m \in Ids, k \in Jobs : m # n \/ k # j => job'[m][k] = job[m][k]
  BY <1>1, BecomesFacts DEF JobStep, Inv, Shape
<1>3. \A k, q : q \in Provs => <<k, q>> # j
  BY NoneAssumption DEF StagesJobName, BindingJobName, DestroyJobName
<1>4. ASSUME NEW m \in Ids, NEW k \in Kinds, NEW q \in Provs
      PROVE  job'[m][<<k, q>>] = job[m][<<k, q>>]
  <2>1. <<k, q>> \in Jobs /\ <<k, q>> # j BY <1>3, JobNames
  <2> QED BY <1>2, <2>1
<1> QED BY <1>4, CredsOfOthers DEF JobStep

\* So does a failure.
LEMMA CredsOfFails ==
  ASSUME Inv, DestroyOfTerraform, CredsInv, NEW n \in Ids, NEW j \in Jobs, Fails(n, j)
  PROVE  CredsInv'
<1>1. JobStep(n, j, "failed") BY FailsStep
<1>2. CASE j \in {StagesJobName, BindingJobName, DestroyJobName}
  <2>1. creds' = creds BY <1>2, NamedJobs DEF Fails
  <2> QED BY <1>1, <1>2, <2>1, CredsOfNamed
<1>3. CASE j \notin {StagesJobName, BindingJobName, DestroyJobName}
  <2>1. PICK kind \in Kinds, p \in Provs : j = <<kind, p>>
    BY <1>3 DEF Jobs, StagesJobName, BindingJobName, DestroyJobName
  <2>2. j[1] = kind /\ j[2] = p BY <2>1
  <2>3. kind # "creds" BY <2>2, FailingAssumption DEF Fails
  <2>4. Ready(n, <<kind, p>>) \/ job[n][<<kind, p>>] = "reading" BY <2>1 DEF Fails
  <2>5. IF kind = "commit" THEN creds' = [creds EXCEPT ![p] = None] ELSE creds' = creds
    BY <2>2 DEF Fails
  <2>6. CASE kind = "commit" BY <1>1, <2>1, <2>4, <2>5, <2>6, CredsOfLast
  <2>7. CASE kind = "clean" BY <1>1, <2>1, <2>4, <2>5, <2>7, CredsOfLast
  <2>8. CASE kind \in {"build", "sam", "iac", "deploy"}
    BY <1>1, <2>1, <2>4, <2>5, <2>8, CredsOfBuild
  <2> QED BY <2>3, <2>6, <2>7, <2>8 DEF Kinds
<1> QED BY <1>2, <1>3

\* So does everything a pipeline does.
LEMMA CredsOfWorks ==
  ASSUME Inv, DestroyOfTerraform, CredsInv, NEW n \in Ids, Works(n)
  PROVE  CredsInv'
<1>1. CASE CreateCiStages(n)
  <2>1. creds' = creds BY <1>1 DEF CreateCiStages
  <2>2. ASSUME NEW st, JobStep(n, StagesJobName, st) PROVE CredsInv'
    BY <2>1, <2>2, CredsOfNamed
  <2>3. CASE CreatesAndStarts(n)
    <3>1. job[n][StagesJobName] = "waiting" BY <1>1, SpawnIsOfWaiting
    <3> DEFINE new == NextId
    <3>2. /\ ~Started(new)
          /\ \A j \in Jobs : job'[new][j] = JobsOfCommit(StagesCommit(n))[j]
          /\ \A m \in Ids \ {new}, k \in Jobs :
               m # n \/ k # StagesJobName => job'[m][k] = job[m][k]
      BY <2>3, <3>1, SpawnFacts
    <3> HIDE DEF new
    <3>3. \A k \in Kinds, q \in Provs : <<k, q>> # StagesJobName /\ <<k, q>> \in Jobs
      BY JobNames, NoneAssumption DEF StagesJobName
    <3>4. \A m \in Ids, k \in Kinds, q \in Provs :
            job'[m][<<k, q>>] = job[m][<<k, q>>]
            \/ (~Started(m) /\ job'[m][<<k, q>>] \in {"absent", "waiting"})
      BY <3>2, <3>3, JobsOfCommitFacts
    <3> QED BY <2>1, <2>3, <3>4, CredsOfOthers DEF CreatesAndStarts
  <2> QED BY <1>1, <2>2, <2>3, CreateCiStagesStep
<1>2. CASE BindResource(n)
  BY <1>2, BindResourceStep, CredsOfNamed DEF BindResource
<1>3. CASE DestroyTf(n)
  BY <1>3, DestroyTfStep, CredsOfNamed DEF DestroyTf
<1>4. ASSUME NEW p \in Provs, DeployIac(n, p) PROVE CredsInv'
  <2>1. PICK st : JobStep(n, <<"iac", p>>, st) BY <1>4, DeployIacStep
  <2>2. Ready(n, <<"iac", p>>) /\ creds' = creds BY <1>4 DEF DeployIac
  <2> QED BY <2>1, <2>2, CredsOfBuild
<1>5. ASSUME NEW p \in Provs, GetAwsCreds(n, p) PROVE CredsInv' BY <1>5, CredsOfGet
<1>6. ASSUME NEW p \in Provs, Build(n, p) PROVE CredsInv'
  <2>1. PICK kind \in {"build", "sam"} :
          Ready(n, <<kind, p>>) /\ Becomes(n, <<kind, p>>, "done")
    BY <1>6 DEF Build
  <2>2. creds' = creds BY <1>6 DEF Build
  <2>3. JobStep(n, <<kind, p>>, "done")
    BY <1>6, <2>1 DEF Build, JobStep, Ready, Status, Inv, Shape
  <2> QED BY <2>1, <2>2, <2>3, CredsOfBuild
<1>7. ASSUME NEW p \in Provs, DeleteAwsCreds(n, p) PROVE CredsInv'
  <2>1. JobStep(n, <<"clean", p>>, "done") BY <1>7, DeleteAwsCredsStep
  <2>2. Ready(n, <<"clean", p>>) /\ creds' = [creds EXCEPT ![p] = None]
    BY <1>7 DEF DeleteAwsCreds
  <2> QED BY <2>1, <2>2, CredsOfLast
<1>8. ASSUME NEW p \in Provs, CommitReads(n, p) PROVE CredsInv'
  <2>1. JobStep(n, <<"commit", p>>, "reading") BY <1>8, CommitReadsStep
  <2>2. Ready(n, <<"commit", p>>) /\ creds' = creds BY <1>8 DEF CommitReads
  <2> QED BY <2>1, <2>2, CredsOfLast
<1>9. ASSUME NEW p \in Provs, CommitWrites(n, p) PROVE CredsInv'
  <2>1. PICK st \in {"done", "pushed"} : Becomes(n, <<"commit", p>>, st)
    BY <1>9 DEF CommitWrites
  <2>2. PICK st2 : JobStep(n, <<"commit", p>>, st2) BY <1>9, CommitWritesStep
  <2>3. <<"commit", p>> \in Jobs BY JobNames DEF Kinds
  <2>4. st2 = st
    <3>1. job'[n][<<"commit", p>>] = st BY <2>1, <2>3, BecomesFacts DEF Inv, Shape, Status
    <3>2. job'[n][<<"commit", p>>] = st2 BY <2>2, <2>3, BecomesFacts DEF JobStep, Inv, Shape
    <3> QED BY <3>1, <3>2
  <2>5. job[n][<<"commit", p>>] = "reading" /\ creds' = [creds EXCEPT ![p] = None]
    BY <1>9 DEF CommitWrites
  <2> QED BY <2>1, <2>2, <2>4, <2>5, CredsOfLast
<1>10. ASSUME NEW j \in Jobs, Fails(n, j) PROVE CredsInv' BY <1>10, CredsOfFails
<1> QED BY <1>1, <1>2, <1>3, <1>4, <1>5, <1>6, <1>7, <1>8, <1>9, <1>10 DEF Works

\* Every step keeps the order.
LEMMA CredsNext ==
  Inv /\ DestroyOfTerraform /\ CredsInv /\ [Next]_vars => CredsInv'
<1> SUFFICES ASSUME Inv, DestroyOfTerraform, CredsInv, [Next]_vars PROVE CredsInv' OBVIOUS
<1>1. CASE vars' = vars BY <1>1, CredsOfOthers DEF vars
<1>2. CASE Promote \/ Bind \/ Destroy \/ Develop
  <2>0. PICK n \in Ids : \E c : Arrival(n, c) BY <1>2, OutsideSteps
  <2>1. PICK c : Arrival(n, c) BY <2>0
  <2>2. /\ \A m \in Ids \ {n} : job'[m] = job[m]
        /\ \A j \in Jobs : job'[n][j] = JobsOfCommit(c)[j]
    BY <2>1, StartFacts DEF Arrival, Inv, Shape
  <2>3. \A m \in Ids, k \in Kinds, q \in Provs :
          job'[m][<<k, q>>] = job[m][<<k, q>>]
          \/ (~Started(m) /\ job'[m][<<k, q>>] \in {"absent", "waiting"})
    BY <2>1, <2>2, JobNames, JobsOfCommitFacts DEF Arrival
  <2> QED BY <2>1, <2>3, CredsOfOthers DEF Arrival
<1>3. ASSUME NEW n \in Ids, Works(n) PROVE CredsInv' BY <1>3, CredsOfWorks
<1> QED BY <1>1, <1>2, <1>3 DEF Next

\* There are no credentials at first.
LEMMA CredsInit == Init => CredsInv
<1> SUFFICES ASSUME Init PROVE CredsInv OBVIOUS
<1>0. template \in TemplateNames /\ creds = [p \in Provs |-> None]
  BY TemplatesAssumption DEF Init
<1>1. \A n \in Ids, k \in Kinds, p \in Provs : job[n][<<k, p>>] = "absent"
  <2> SUFFICES ASSUME NEW n \in Ids, NEW k \in Kinds, NEW p \in Provs
               PROVE  job[n][<<k, p>>] = "absent"
    OBVIOUS
  <2>1. <<k, p>> \in Jobs /\ <<k, p>> # StagesJobName
    BY JobNames, NoneAssumption DEF StagesJobName
  <2> QED BY <2>1 DEF Init
<1>2. ASSUME HasCreds, NEW n \in Ids, NEW p \in Provs PROVE InOrder(n, p)
  <2>1. {"creds", "build", LastKind} \subseteq Kinds BY <1>0, <1>2, KeyJobs DEF Kinds
  <2> QED BY <1>0, <1>1, <2>1, NoneAssumption DEF InOrder
<1> QED BY <1>0, <1>2 DEF CredsInv

\* The order makes the credentials the pipeline's own.
LEMMA OwnOfInv == Inv /\ CredsInv => CredentialsAreOwn
<1> SUFFICES ASSUME Inv, CredsInv, NEW n \in Ids, NEW p \in Provs
             PROVE  LET stored == job[n][<<"creds", p>>]
                        cleaner == CleanerStatus(n, p)
                    IN /\ stored = "done" /\ cleaner \in {"waiting", "reading"} => creds[p] = n
                       /\ creds[p] = n =>
                            \/ stored = "failed"
                            \/ stored = "done" /\ cleaner \in {"waiting", "reading"}
                            \/ stored = "done" /\ cleaner = "failed" /\ "clean" \in JobsOf(template)
  BY DEF CredentialsAreOwn
<1>1. CASE HasCreds
  <2>1. CleanerStatus(n, p) = job[n][<<LastKind, p>>] BY DEF CleanerStatus, LastKind
  <2> QED BY <1>1, <2>1 DEF CredsInv, InOrder
<1>2. CASE ~HasCreds
  <2>1. job[n][<<"creds", p>>] = "absent" BY <1>2, ProviderJobs, JobNames DEF HasCreds, Kinds
  <2> QED BY <1>2, <2>1, NoneAssumption DEF CredsInv
<1> QED BY <1>1, <1>2

\* A pipeline that has stored credentials keeps them until its last job, and they
\* outlast it only when one of its jobs has failed (.gitlab-ci-aws-image-kaniko.yml).
THEOREM OwnCredentials == Spec => []CredentialsAreOwn
<1>1. Spec => []CredsInv
  BY CredsInit, CredsNext, Invariance, DestroyOfTerraformInvariance, PTL DEF Spec
<1> QED BY <1>1, OwnOfInv, Invariance, PTL

-------------------------------------------------------------------------------
(* The stages of .gitlab-ci.yml. *)

\* The smallest of some numbers.
LEMMA Smallest ==
  ASSUME NEW T, T \subseteq Nat, T # {}
  PROVE  \E n \in T : \A m \in T : n <= m
<1> DEFINE R == {ss \in Nat \X Nat : ss[1] < ss[2]}
<1>1. IsWellFoundedOn(R, Nat) BY NatLessThanWellFounded DEF OpToRel
<1>2. \E n \in T : \A m \in T : ~(<<m, n>> \in R)
  <2> HIDE DEF R
  <2> QED BY <1>1, WFMin
<1>3. PICK n \in T : \A m \in T : ~(<<m, n>> \in R) BY <1>2
<1>4. \A m \in T : ~(m < n) BY <1>3
<1> QED BY <1>4

\* One more file.
StageStep(files, stages, f, i) ==
  IF i = 0 THEN stages
  ELSE IF FileOrder[i] \in files THEN AddStage(f[i - 1], FileOrder[i])
  ELSE f[i - 1]

\* The stages after each of the first k files, one after the other.
IsStaging(files, stages, f, k) == f = [i \in 0 .. k |-> StageStep(files, stages, f, i)]

\* The loop is defined for any number of files: the first number it were not defined for
\* would have one before it.
LEMMA StagingExists ==
  ASSUME NEW files, NEW stages, NEW k \in Nat
  PROVE  \E f : IsStaging(files, stages, f, k)
<1> DEFINE T == {i \in Nat : ~ \E f : IsStaging(files, stages, f, i)}
<1> SUFFICES ASSUME T # {} PROVE FALSE OBVIOUS
<1>1. PICK n \in T : \A m \in T : n <= m BY Smallest
<1>2. CASE n = 0
  <2>1. IsStaging(files, stages, [i \in 0 .. 0 |-> stages], 0) BY DEF IsStaging, StageStep
  <2> QED BY <1>1, <1>2, <2>1
<1>3. CASE n # 0
  <2>1. n - 1 \in Nat /\ n - 1 \notin T BY <1>1, <1>3
  <2>2. PICK f : IsStaging(files, stages, f, n - 1) BY <2>1
  <2> DEFINE v == IF FileOrder[n] \in files THEN AddStage(f[n - 1], FileOrder[n]) ELSE f[n - 1]
             g == [i \in 0 .. n |-> IF i = n THEN v ELSE f[i]]
  <2>3. \A i \in 0 .. n - 1 : f[i] = StageStep(files, stages, f, i) BY <2>2 DEF IsStaging
  <2> HIDE DEF v
  <2>4. \A i \in 0 .. n : g[i] = IF i = n THEN v ELSE f[i] OBVIOUS
  <2>5. g[n - 1] = f[n - 1] BY <2>1, <2>4
  <2>6. \A i \in 0 .. n : g[i] = StageStep(files, stages, g, i)
    <3> SUFFICES ASSUME NEW i \in 0 .. n PROVE g[i] = StageStep(files, stages, g, i) OBVIOUS
    <3> HIDE DEF g
    <3>1. CASE i = n BY <1>3, <2>4, <2>5, <3>1 DEF StageStep, v
    <3>2. CASE i # n
      <4>1. i \in 0 .. n - 1 /\ (i # 0 => i - 1 \in 0 .. n /\ i - 1 # n) BY <3>2, <1>1
      <4>2. g[i] = f[i] /\ (i # 0 => g[i - 1] = f[i - 1]) BY <2>4, <3>2, <4>1
      <4> QED BY <2>3, <4>1, <4>2 DEF StageStep
    <3> QED BY <3>1, <3>2
  <2>7. g = [i \in 0 .. n |-> StageStep(files, stages, g, i)]
    <3>1. g = [i \in 0 .. n |-> g[i]] OBVIOUS
    <3> HIDE DEF g
    <3>2. [i \in 0 .. n |-> g[i]] = [i \in 0 .. n |-> StageStep(files, stages, g, i)] BY <2>6
    <3> QED BY <3>1, <3>2
  <2>8. IsStaging(files, stages, g, n) BY <2>7 DEF IsStaging
  <2> QED BY <1>1, <2>8
<1> QED BY <1>2, <1>3

\* The stages of the whole loop are the last of these.
LEMMA StagingOf ==
  ASSUME NEW files, NEW stages, Len(FileOrder) \in Nat
  PROVE  \E f : /\ IsStaging(files, stages, f, Len(FileOrder))
                /\ StagesFor(files, stages) = f[Len(FileOrder)]
<1> DEFINE P(f) == IsStaging(files, stages, f, Len(FileOrder))
           c == CHOOSE f : P(f)
<1>1. \E f : P(f) BY StagingExists
<1>2. P(c) BY <1>1
<1>3. StagesFor(files, stages) = c[Len(FileOrder)]
  BY DEF StagesFor, IsStaging, StageStep
<1> QED BY <1>2, <1>3

\* A stage of the provider's environment, or of one whose name begins with that name.
Covers(stages, p) == \E i \in DOMAIN stages : Begins(EnvOf[p], stages[i])

\* A provider whose properties file is looked at gets a stage, and the others keep theirs.
LEMMA AddStageFacts ==
  ASSUME NEW stages \in Seq(Envs), NEW p \in Provs
  PROVE  /\ AddStage(stages, p) \in Seq(Envs)
         /\ Covers(AddStage(stages, p), p)
         /\ \A q : Covers(stages, q) => Covers(AddStage(stages, p), q)
<1>1. EnvOf[p] \in Envs BY EnvAssumption
<1>2. CASE \E i \in DOMAIN stages : Begins(EnvOf[p], stages[i])
  BY <1>2 DEF AddStage, Covers
<1>3. CASE ~ \E i \in DOMAIN stages : Begins(EnvOf[p], stages[i])
  <2> DEFINE new == Append(stages, EnvOf[p])
  <2>1. AddStage(stages, p) = new BY <1>3 DEF AddStage
  <2>2. /\ new \in Seq(Envs) /\ new[Len(stages) + 1] = EnvOf[p]
        /\ Len(stages) + 1 \in DOMAIN new
        /\ \A i \in DOMAIN stages : i \in DOMAIN new /\ new[i] = stages[i]
    BY <1>1
  <2> HIDE DEF new
  <2>3. Covers(new, p) BY <2>2 DEF Covers, Begins
  <2>4. \A q : Covers(stages, q) => Covers(new, q) BY <2>2 DEF Covers
  <2> QED BY <2>1, <2>2, <2>3, <2>4
<1> QED BY <1>2, <1>3

\* The files looked at so far have their stages.
LEMMA StagingKeeps ==
  ASSUME NEW files \in SUBSET Provs, NEW stages \in Seq(Envs), NEW f,
         IsStaging(files, stages, f, Len(FileOrder)), NEW k \in 0 .. Len(FileOrder)
  PROVE  /\ f[k] \in Seq(Envs)
         /\ \A q : Covers(stages, q) => Covers(f[k], q)
         /\ \A i \in 1 .. k : FileOrder[i] \in files => Covers(f[k], FileOrder[i])
<1> DEFINE Good(i) ==
             /\ f[i] \in Seq(Envs)
             /\ \A q : Covers(stages, q) => Covers(f[i], q)
             /\ \A j \in 1 .. i : FileOrder[j] \in files => Covers(f[i], FileOrder[j])
           T == {i \in 0 .. Len(FileOrder) : ~Good(i)}
<1>0. FileOrder \in Seq(Provs) /\ Len(FileOrder) \in Nat BY FileOrderAssumption
<1> SUFFICES ASSUME T # {} PROVE FALSE OBVIOUS
<1>1. PICK n \in T : \A m \in T : n <= m
  <2>1. T \subseteq Nat BY <1>0
  <2> HIDE DEF T
  <2> QED BY <2>1, Smallest
<1>2. \A i \in 0 .. Len(FileOrder) : f[i] = StageStep(files, stages, f, i) BY DEF IsStaging
<1>3. CASE n = 0
  <2>1. f[0] = stages BY <1>0, <1>2 DEF StageStep
  <2> QED BY <1>1, <1>3, <2>1
<1>4. CASE n # 0
  <2> DEFINE m == n - 1
             p == FileOrder[n]
  <2>1. n \in 1 .. Len(FileOrder) /\ m \in 0 .. Len(FileOrder) /\ m < n BY <1>0, <1>1, <1>4
  <2>2. Good(m)
    <3>1. m \notin T BY <1>0, <1>1, <2>1
    <3> QED BY <2>1, <3>1
  <2>3. p \in Provs BY <1>0, <2>1
  <2>4. f[n] = IF p \in files THEN AddStage(f[m], p) ELSE f[m] BY <1>2, <1>4, <2>1 DEF StageStep
  <2>5. \A j \in 1 .. n : j = n \/ j \in 1 .. m BY <1>0, <2>1
  <2> HIDE DEF m, p
  <2>6. CASE p \in files
    <3>1. f[n] = AddStage(f[m], p) BY <2>4, <2>6
    <3>2. /\ f[n] \in Seq(Envs) /\ Covers(f[n], p)
          /\ \A q : Covers(f[m], q) => Covers(f[n], q)
      BY <2>2, <2>3, <3>1, AddStageFacts
    <3>3. Good(n) BY <2>2, <2>5, <3>2 DEF p
    <3> QED BY <1>1, <3>3
  <2>7. CASE p \notin files
    <3>1. f[n] = f[m] BY <2>4, <2>7
    <3>2. Good(n) BY <2>2, <2>5, <2>7, <3>1 DEF p
    <3> QED BY <1>1, <3>2
  <2> QED BY <2>6, <2>7
<1> QED BY <1>3, <1>4

\* After the loop over the properties files of main, every one of them has a stage.
LEMMA StagesForFacts ==
  ASSUME NEW files \in SUBSET Provs, NEW stages \in Seq(Envs)
  PROVE  /\ StagesFor(files, stages) \in Seq(Envs)
         /\ \A p \in files : Covers(StagesFor(files, stages), p)
<1>0. Len(FileOrder) \in Nat BY FileOrderAssumption
<1>1. PICK f : /\ IsStaging(files, stages, f, Len(FileOrder))
               /\ StagesFor(files, stages) = f[Len(FileOrder)]
  BY <1>0, StagingOf
<1>2. /\ f[Len(FileOrder)] \in Seq(Envs)
      /\ \A i \in 1 .. Len(FileOrder) :
           FileOrder[i] \in files => Covers(f[Len(FileOrder)], FileOrder[i])
  <2>1. Len(FileOrder) \in 0 .. Len(FileOrder) BY <1>0
  <2> QED BY <1>1, <2>1, StagingKeeps
<1>3. StagesFor(files, stages) \in Seq(Envs) BY <1>1, <1>2
<1>4. ASSUME NEW p \in files PROVE Covers(StagesFor(files, stages), p)
  <2>1. p \in Provs OBVIOUS
  <2>2. PICK i \in 1 .. Len(FileOrder) : FileOrder[i] = p BY <2>1, FileOrderAssumption
  <2> QED BY <1>1, <1>2, <2>2
<1> QED BY <1>3, <1>4

-------------------------------------------------------------------------------
(* Types. *)

\* Files with other contents are files.
LEMMA TreeSets ==
  ASSUME NEW t \in Tree
  PROVE  /\ \A e \in Entity : WithEntity(t, e) \in Tree
         /\ \A b \in Ids \cup {None} : [t EXCEPT !.binding = b] \in Tree
         /\ \A b \in Ids \cup {None} : [t EXCEPT !.destroy = b] \in Tree
         /\ \A ps \in SUBSET Provs : [t EXCEPT !.providers = ps] \in Tree
         /\ \A ps \in SUBSET Provs : [t EXCEPT !.jobs = ps] \in Tree
         /\ \A ss \in Seq(Envs) : [t EXCEPT !.stages = ss] \in Tree
BY DEF Tree, WithEntity

\* What the jobs make of an entity is one.
LEMMA EntitySets ==
  ASSUME NEW e \in Entity
  PROVE  /\ \A x \in Resources \cup Envs : WithDependency(e, x) \in Entity
         /\ \A x \in Resources \cup Envs : DependsOn(e, x) \in Entity
         /\ \A x : NoLonger(e, x) \in Entity
         /\ \A p \in Provs : Detailed(e, p) \in Entity
         /\ \A p \in Provs : ToDetail(e, p) \in Entity
<1>1. ASSUME NEW d \in Entity, NEW x \in Resources \cup Envs
      PROVE  WithDependency(d, x) \in Entity /\ DependsOn(d, x) \in Entity
  BY <1>1 DEF Entity, WithDependency, DependsOn
<1>2. ASSUME NEW x PROVE NoLonger(e, x) \in Entity BY DEF Entity, NoLonger
<1>3. ASSUME NEW p \in Provs PROVE Detailed(e, p) \in Entity /\ ToDetail(e, p) \in Entity
  <2> DEFINE d == [e EXCEPT !.details = @ \cup {p}]
  <2>1. d \in Entity BY DEF Entity
  <2>2. EnvOf[p] \in Resources \cup Envs BY EnvAssumption
  <2>3. Detailed(e, p) = DependsOn(d, EnvOf[p]) /\ ToDetail(e, p) = WithDependency(d, EnvOf[p])
    BY DEF Detailed, ToDetail
  <2> HIDE DEF d
  <2> QED BY <1>1, <2>1, <2>2, <2>3
<1> QED BY <1>1, <1>2, <1>3

\* A git-commit that has read has read an entity.
Readings ==
  \A n \in Ids, p \in Provs : job[n][<<"commit", p>>] = "reading" => seen[n][p] \in Entity

\* A binding is of a resource.
Subjects == \A n \in Ids : commit[n].title \in {"bind", "unbind"} => commit[n].subject \in Resources

TypeInv == TypeOK /\ Readings /\ Subjects

\* The stages and the stage files are the same.
SameStages(t, u) == t.jobs = u.jobs /\ t.stages = u.stages

\* The files that a job may leave behind.
LEMMA EntityWritten ==
  ASSUME NEW t \in Tree, NEW e \in Entity
  PROVE  LET u == WithEntity(t, e) IN
         /\ u \in Tree /\ SameStages(u, t)
         /\ [u EXCEPT !.binding = None] \in Tree /\ SameStages([u EXCEPT !.binding = None], t)
         /\ [u EXCEPT !.destroy = None] \in Tree /\ SameStages([u EXCEPT !.destroy = None], t)
<1> DEFINE u == WithEntity(t, e)
<1>1. u \in Tree /\ SameStages(u, t) BY DEF Tree, WithEntity, SameStages
<1> HIDE DEF u
<1>2. [u EXCEPT !.binding = None] \in Tree /\ [u EXCEPT !.destroy = None] \in Tree
  BY <1>1, TreeSets
<1>3. SameStages([u EXCEPT !.binding = None], u) /\ SameStages([u EXCEPT !.destroy = None], u)
  BY <1>1 DEF Tree, SameStages
<1> QED BY <1>1, <1>2, <1>3 DEF u, SameStages

\* What the jobs but create-ci-stages write is well typed, and they leave the stages alone.
LEMMA WorksWrite ==
  ASSUME Inv, TypeInv, NEW n \in Ids, Works(n), ~CreateCiStages(n)
  PROVE  /\ tree' \in Tree /\ SameStages(tree', tree)
         /\ ledger' \in Entity /\ outdated' \in BOOLEAN /\ commit' = commit
<1>0. tree \in Tree /\ tree.entity \in Entity /\ ledger \in Entity /\ outdated \in BOOLEAN
  BY DEF TypeInv, TypeOK, Tree
<1>s. SameStages(tree, tree) BY DEF SameStages
<1>2. CASE BindResource(n)
  <2>1. job[n][BindingJobName] = "waiting" /\ outdated' = outdated /\ commit' = commit
    BY <1>2 DEF BindResource, Ready
  <2> DEFINE c == commit[n]
             e == BoundOrNot(c, tree.entity)
  <2>2. CASE UNCHANGED <<tree, ledger>> BY <1>0, <1>s, <2>1, <2>2
  <2>3. CASE /\ commit[n].sha = head
             /\ tree' = [WithEntity(c.tree, BoundOrNot(c, c.tree.entity)) EXCEPT !.binding = None]
             /\ ledger' = ToBindOrNot(c, ledger)
    <3>1. c.subject \in Resources
      BY <2>1, OfTitle DEF TypeInv, Subjects
    <3>2. e \in Entity /\ ledger' \in Entity
      BY <1>0, <2>3, <3>1, EntitySets DEF BoundOrNot, ToBindOrNot
    <3>3. tree' = [WithEntity(tree, e) EXCEPT !.binding = None]
      BY <2>1, <2>3, PushedFrom, JobNames
    <3> HIDE DEF e
    <3> QED BY <1>0, <2>1, <3>2, <3>3, EntityWritten
  <2> QED BY <1>2, <2>2, <2>3 DEF BindResource, Pushes, IsRefused
<1>3. CASE DestroyTf(n)
  <2>1. job[n][DestroyJobName] = "waiting" /\ outdated' = outdated /\ commit' = commit
    BY <1>3 DEF DestroyTf, Ready
  <2> DEFINE c == commit[n]
             e == NoLonger(tree.entity, EnvOf[c.subject])
  <2>2. CASE UNCHANGED <<tree, ledger>> BY <1>0, <1>s, <2>1, <2>2
  <2>3. CASE /\ commit[n].sha = head
             /\ tree' = [WithEntity(c.tree, NoLonger(c.tree.entity, EnvOf[c.subject]))
                           EXCEPT !.destroy = None]
             /\ ledger' = NoLonger(ledger, EnvOf[c.subject])
    <3>2. e \in Entity /\ ledger' \in Entity BY <1>0, <2>3, EntitySets
    <3>3. tree' = [WithEntity(tree, e) EXCEPT !.destroy = None]
      BY <2>1, <2>3, PushedFrom, JobNames
    <3> HIDE DEF e
    <3> QED BY <1>0, <2>1, <3>2, <3>3, EntityWritten
  <2> QED BY <1>3, <2>2, <2>3 DEF DestroyTf, Pushes, IsRefused
<1>4. ASSUME NEW p \in Provs, DeployIac(n, p)
      PROVE  /\ tree' \in Tree /\ SameStages(tree', tree)
             /\ ledger' \in Entity /\ outdated' \in BOOLEAN /\ commit' = commit
  <2>1. job[n][<<"iac", p>>] = "waiting" /\ outdated' = outdated /\ commit' = commit
    BY <1>4 DEF DeployIac, Ready
  <2> DEFINE e == Detailed(tree.entity, p)
  <2>2. CASE UNCHANGED <<tree, ledger>> BY <1>0, <1>s, <2>1, <2>2
  <2>3. CASE /\ commit[n].sha = head
             /\ tree' = WithEntity(commit[n].tree, Detailed(commit[n].tree.entity, p))
             /\ ledger' = ToDetail(ledger, p)
    <3>0. <<"iac", p>> \in Jobs BY JobNames DEF Kinds
    <3>1. tree' = WithEntity(tree, e) BY <2>1, <2>3, <3>0, PushedFrom
    <3>2. e \in Entity /\ ledger' \in Entity BY <1>0, <2>3, EntitySets
    <3> HIDE DEF e
    <3> QED BY <1>0, <2>1, <3>1, <3>2, EntityWritten
  <2> QED BY <1>4, <2>2, <2>3 DEF DeployIac, Pushes, IsRefused
<1>5. ASSUME NEW p \in Provs, CommitWrites(n, p)
      PROVE  /\ tree' \in Tree /\ SameStages(tree', tree)
             /\ ledger' \in Entity /\ outdated' \in BOOLEAN /\ commit' = commit
  <2> DEFINE written == Detailed(seen[n][p], p)
  <2>1. /\ ledger' = ToDetail(ledger, p)
        /\ outdated' = (outdated \/ seen[n][p] # tree.entity)
        /\ IF written = tree.entity THEN tree' = tree ELSE tree' = WithEntity(tree, written)
        /\ commit' = commit
        /\ job[n][<<"commit", p>>] = "reading"
    BY <1>5 DEF CommitWrites
  <2>2. seen[n][p] \in Entity BY <2>1 DEF TypeInv, Readings
  <2>3. written \in Entity /\ ledger' \in Entity BY <1>0, <2>1, <2>2, EntitySets
  <2>4. outdated' \in BOOLEAN BY <1>0, <2>1
  <2> HIDE DEF written
  <2> QED BY <1>0, <1>s, <2>1, <2>3, <2>4, EntityWritten
<1>6. ASSUME NEW p \in Provs,
             GetAwsCreds(n, p) \/ Build(n, p) \/ DeleteAwsCreds(n, p) \/ CommitReads(n, p)
      PROVE  UNCHANGED <<tree, ledger, outdated, commit>>
  BY <1>6 DEF GetAwsCreds, Build, DeleteAwsCreds, CommitReads
<1>7. ASSUME NEW j \in Jobs, Fails(n, j) PROVE UNCHANGED <<tree, ledger, outdated, commit>>
  BY <1>7 DEF Fails
<1> QED BY <1>0, <1>s, <1>2, <1>3, <1>4, <1>5, <1>6, <1>7 DEF Works

\* The files that create-ci-stages writes are well typed, and every provider with a stage
\* file has a stage.
LEMMA StagesWrite ==
  ASSUME TypeInv, NEW n \in Ids
  PROVE  LET t == StagesCommit(n).tree IN
         /\ t \in Tree /\ StagesCommit(n) \in Commit
         /\ \A p \in t.jobs : Covers(t.stages, p)
<1> DEFINE t == commit[n].tree
           u == [t EXCEPT !.stages = Staged(t)]
           v == [u EXCEPT !.jobs = t.providers]
<1>1. t \in Tree /\ head \in Nat BY DEF TypeInv, TypeOK, Commit
<1>2. t.providers \in SUBSET Provs /\ t.stages \in Seq(Envs) BY <1>1 DEF Tree
<1>3. Staged(t) \in Seq(Envs) /\ \A p \in t.providers : Covers(Staged(t), p)
  BY <1>2, StagesForFacts DEF Staged
<1> HIDE DEF t
<1>4. u \in Tree /\ u.stages = Staged(t) BY <1>1, <1>3 DEF Tree
<1> HIDE DEF u
<1>5. v \in Tree /\ v.stages = u.stages /\ v.jobs = t.providers BY <1>2, <1>4 DEF Tree
<1>6. StagesCommit(n).tree = v BY DEF StagesCommit, t, u
<1>7. AddedEnvs(t) \in SUBSET Envs
  <2>1. {EnvOf[p] : p \in t.providers \ t.jobs} \in SUBSET Envs BY <1>2, EnvAssumption
  <2> QED BY <2>1 DEF AddedEnvs
<1> HIDE DEF v
<1>8. StagesCommit(n) =
        [title |-> "added", subject |-> None, iac |-> FALSE, named |-> AddedEnvs(t),
         sha |-> head + 1, tree |-> v]
  BY DEF StagesCommit, t, u, v
<1>9. StagesCommit(n) \in Commit
  <2>1. "added" \in Titles /\ None \in Resources \cup Provs \cup {None} BY DEF Titles
  <2> QED BY <1>1, <1>5, <1>7, <1>8, <2>1 DEF Commit
<1> QED BY <1>3, <1>4, <1>5, <1>6, <1>9

\* So are the commits that land, and they leave the stages alone.
LEMMA LandWrites ==
  ASSUME TypeInv, NEW title \in Titles, NEW subject \in Resources \cup Provs \cup {None},
         NEW iac \in BOOLEAN, NEW t \in Tree, SameStages(t, tree), Land(title, subject, iac, t),
         title \in {"bind", "unbind"} => subject \in Resources
  PROVE  /\ tree' \in Tree /\ SameStages(tree', tree)
         /\ commit' \in [Ids -> Commit] /\ Subjects'
         /\ UNCHANGED <<template, seen, ledger, outdated>>
<1> DEFINE c == [title |-> title, subject |-> subject, iac |-> iac, named |-> {},
                 sha |-> head + 1, tree |-> t]
<1>1. head \in Nat /\ commit \in [Ids -> Commit] BY DEF TypeInv, TypeOK
<1>2. c \in Commit BY <1>1 DEF Commit
<1>3. c.title = title /\ c.subject = subject OBVIOUS
<1>4. NextId \in Ids BY NextIdFree DEF Land
<1>5. commit' = [commit EXCEPT ![NextId] = c] BY DEF Land, Start
<1> HIDE DEF c
<1>6. commit' \in [Ids -> Commit] BY <1>1, <1>2, <1>4, <1>5
<1>7. Subjects'
  <2> SUFFICES ASSUME NEW m \in Ids, commit'[m].title \in {"bind", "unbind"}
               PROVE  commit'[m].subject \in Resources
    BY DEF Subjects
  <2>1. CASE m = NextId BY <1>1, <1>3, <1>4, <1>5, <2>1
  <2>2. CASE m # NextId BY <1>1, <1>5, <2>2 DEF TypeInv, Subjects
  <2> QED BY <2>1, <2>2
<1> QED BY <1>6, <1>7 DEF Land

\* The commits from outside are well typed.
LEMMA OutsideWrites ==
  ASSUME TypeInv, Promote \/ Bind \/ Destroy \/ Develop
  PROVE  /\ tree' \in Tree /\ SameStages(tree', tree)
         /\ commit' \in [Ids -> Commit] /\ Subjects'
         /\ UNCHANGED <<template, seen, ledger, outdated>>
<1>0. tree \in Tree BY DEF TypeInv, TypeOK
<1>t. {"generate", "bind", "unbind", "destroy", "push"} \subseteq Titles BY DEF Titles
<1>1. CASE Promote
  <2>1. PICK e \in Envs :
          Land("generate", None, FALSE,
               [tree EXCEPT !.providers = @ \cup {p \in Provs : EnvOf[p] = e}])
    BY <1>1 DEF Promote
  <2> DEFINE t == [tree EXCEPT !.providers = @ \cup {p \in Provs : EnvOf[p] = e}]
  <2>2. t \in Tree /\ SameStages(t, tree) BY <1>0 DEF Tree, SameStages
  <2> HIDE DEF t
  <2>3. Land("generate", None, FALSE, t) BY <2>1 DEF t
  <2> QED BY <1>t, <2>2, <2>3, LandWrites
<1>2. CASE Bind
  <2>1. PICK r \in Resources, title \in {"bind", "unbind"} :
          Land(title, r, title \in PoliciesFor[r], [tree EXCEPT !.binding = NextId])
    BY <1>2 DEF Bind
  <2> DEFINE t == [tree EXCEPT !.binding = NextId]
  <2>2. NextId \in Ids BY <2>1, NextIdFree DEF Land
  <2>3. t \in Tree /\ SameStages(t, tree) BY <1>0, <2>2 DEF Tree, SameStages
  <2>4. (title \in PoliciesFor[r]) \in BOOLEAN OBVIOUS
  <2> HIDE DEF t
  <2>5. Land(title, r, title \in PoliciesFor[r], t) BY <2>1 DEF t
  <2> QED BY <1>t, <2>3, <2>4, <2>5, LandWrites
<1>3. CASE Destroy
  <2>1. PICK p \in tree.providers : Land("destroy", p, FALSE, [tree EXCEPT !.destroy = NextId])
    BY <1>3 DEF Destroy
  <2> DEFINE t == [tree EXCEPT !.destroy = NextId]
  <2>2. NextId \in Ids /\ p \in Provs BY <1>0, <2>1, NextIdFree DEF Land, Tree
  <2>3. t \in Tree /\ SameStages(t, tree) BY <1>0, <2>2 DEF Tree, SameStages
  <2> HIDE DEF t
  <2>4. Land("destroy", p, FALSE, t) BY <2>1 DEF t
  <2> QED BY <1>t, <2>2, <2>3, <2>4, LandWrites
<1>4. CASE Develop
  <2>1. PICK iac \in BOOLEAN : Land("push", None, iac, tree) BY <1>4 DEF Develop
  <2>2. SameStages(tree, tree) BY DEF SameStages
  <2> QED BY <1>0, <1>t, <2>1, <2>2, LandWrites
<1> QED BY <1>1, <1>2, <1>3, <1>4

\* A git-commit has read only in its own second half.
LEMMA ReadingsOfWorks ==
  ASSUME Inv, TypeInv, NEW n \in Ids, Works(n)
  PROVE  seen' \in [Ids -> [Provs -> Entity \cup {None}]] /\ Readings'
<1>0. /\ job \in [Ids -> [Jobs -> Status]] /\ tree.entity \in Entity
      /\ seen \in [Ids -> [Provs -> Entity \cup {None}]]
  BY DEF Inv, Shape, TypeInv, TypeOK, Tree
<1>j. \A p \in Provs : <<"commit", p>> \in Jobs BY JobNames DEF Kinds
<1>1. ASSUME seen' = seen,
             \A m \in Ids, p \in Provs :
               job'[m][<<"commit", p>>] = "reading" => job[m][<<"commit", p>>] = "reading"
      PROVE  seen' \in [Ids -> [Provs -> Entity \cup {None}]] /\ Readings'
  BY <1>0, <1>1 DEF TypeInv, Readings
<1>2. ASSUME NEW j \in Jobs, NEW st \in Status, Becomes(n, j, st), seen' = seen, st # "reading"
      PROVE  seen' \in [Ids -> [Provs -> Entity \cup {None}]] /\ Readings'
  <2>1. /\ job'[n][j] = st
        /\ \A m \in Ids, k \in Jobs : m # n \/ k # j => job'[m][k] = job[m][k]
    BY <1>0, <1>2, BecomesFacts
  <2> QED BY <1>1, <1>2, <1>j, <2>1
<1>3. ASSUME NEW p \in Provs, NEW e \in Entity \cup {None}, NEW st \in Status,
             Becomes(n, <<"commit", p>>, st), seen' = [seen EXCEPT ![n][p] = e],
             st = "reading" => e \in Entity
      PROVE  seen' \in [Ids -> [Provs -> Entity \cup {None}]] /\ Readings'
  <2> DEFINE j == <<"commit", p>>
  <2>1. /\ job'[n][j] = st
        /\ \A m \in Ids, k \in Jobs : m # n \/ k # j => job'[m][k] = job[m][k]
    BY <1>0, <1>3, <1>j, BecomesFacts
  <2>2. /\ seen' \in [Ids -> [Provs -> Entity \cup {None}]]
        /\ seen'[n][p] = e
        /\ \A m \in Ids, q \in Provs : m # n \/ q # p => seen'[m][q] = seen[m][q]
    <3> DEFINE row == [seen[n] EXCEPT ![p] = e]
    <3>1. row \in [Provs -> Entity \cup {None}] /\ row[p] = e
          /\ \A q \in Provs : q # p => row[q] = seen[n][q]
      BY <1>0
    <3>2. seen' = [seen EXCEPT ![n] = row] BY <1>3
    <3> HIDE DEF row
    <3> QED BY <1>0, <3>1, <3>2
  <2>3. ASSUME NEW m \in Ids, NEW q \in Provs, job'[m][<<"commit", q>>] = "reading"
        PROVE  seen'[m][q] \in Entity
    <3>1. CASE m = n /\ q = p BY <1>3, <2>1, <2>2, <2>3, <3>1
    <3>2. CASE m # n \/ q # p
      <4>1. m # n \/ <<"commit", q>> # j BY <3>2
      <4>2. job[m][<<"commit", q>>] = "reading" BY <1>j, <2>1, <2>3, <4>1
      <4> QED BY <2>2, <3>2, <4>2 DEF TypeInv, Readings
    <3> QED BY <3>1, <3>2
  <2> QED BY <2>2, <2>3 DEF Readings
<1>s. {"done", "pushed", "refused", "failed", "reading"} \subseteq Status BY DEF Status
<1>4. CASE CreateCiStages(n)
  <2>1. seen' = seen /\ job[n][StagesJobName] = "waiting" BY <1>4, SpawnIsOfWaiting DEF CreateCiStages
  <2>2. CASE CreatesAndStarts(n)
    <3>1. /\ \A j \in Jobs : job'[NextId][j] = JobsOfCommit(StagesCommit(n))[j]
          /\ \A m \in Ids \ {NextId}, k \in Jobs :
               m # n \/ k # StagesJobName => job'[m][k] = job[m][k]
      BY <2>1, <2>2, SpawnFacts
    <3>2. \A p \in Provs : <<"commit", p>> # StagesJobName BY DEF StagesJobName
    <3>3. ASSUME NEW m \in Ids, NEW p \in Provs, job'[m][<<"commit", p>>] = "reading"
          PROVE  job[m][<<"commit", p>>] = "reading"
      <4>1. m # NextId BY <1>j, <3>1, <3>3, JobsOfCommitFacts
      <4> QED BY <1>j, <3>1, <3>2, <3>3, <4>1
    <3> QED BY <1>1, <2>1, <3>3
  <2>3. CASE Becomes(n, StagesJobName, "pushed") BY <1>2, <1>s, <2>1, <2>3, JobNames
  <2>4. CASE Becomes(n, StagesJobName, "refused") BY <1>2, <1>s, <2>1, <2>4, JobNames
  <2> QED BY <1>4, <2>2, <2>3, <2>4 DEF CreateCiStages, CreatesAndStarts, StagesCommit, IsRefused
<1>5. CASE BindResource(n)
  <2>1. Becomes(n, BindingJobName, "pushed") \/ Becomes(n, BindingJobName, "refused")
    BY <1>5 DEF BindResource, Pushes, IsRefused
  <2>2. seen' = seen BY <1>5 DEF BindResource
  <2> QED BY <1>2, <1>s, <2>1, <2>2, JobNames
<1>6. CASE DestroyTf(n)
  <2>1. Becomes(n, DestroyJobName, "pushed") \/ Becomes(n, DestroyJobName, "refused")
    BY <1>6 DEF DestroyTf, Pushes, IsRefused
  <2>2. seen' = seen BY <1>6 DEF DestroyTf
  <2> QED BY <1>2, <1>s, <2>1, <2>2, JobNames
<1>7. ASSUME NEW p \in Provs,
             DeployIac(n, p) \/ GetAwsCreds(n, p) \/ Build(n, p) \/ DeleteAwsCreds(n, p)
      PROVE  seen' \in [Ids -> [Provs -> Entity \cup {None}]] /\ Readings'
  <2>1. PICK kind \in {"iac", "creds", "build", "sam", "clean"},
             st \in {"done", "pushed", "refused", "failed"} : Becomes(n, <<kind, p>>, st)
    BY <1>7 DEF DeployIac, GetAwsCreds, Build, DeleteAwsCreds, Pushes, IsRefused
  <2>2. seen' = seen BY <1>7 DEF DeployIac, GetAwsCreds, Build, DeleteAwsCreds
  <2>3. <<kind, p>> \in Jobs BY JobNames DEF Kinds
  <2> QED BY <1>2, <1>s, <2>1, <2>2, <2>3
<1>8. ASSUME NEW p \in Provs, CommitReads(n, p)
      PROVE  seen' \in [Ids -> [Provs -> Entity \cup {None}]] /\ Readings'
  <2>1. Becomes(n, <<"commit", p>>, "reading") /\ seen' = [seen EXCEPT ![n][p] = tree.entity]
    BY <1>8 DEF CommitReads
  <2> QED BY <1>0, <1>3, <1>s, <2>1
<1>9. ASSUME NEW p \in Provs, CommitWrites(n, p)
      PROVE  seen' \in [Ids -> [Provs -> Entity \cup {None}]] /\ Readings'
  <2>1. PICK st \in {"done", "pushed"} : Becomes(n, <<"commit", p>>, st)
    BY <1>9 DEF CommitWrites
  <2>2. seen' = [seen EXCEPT ![n][p] = None] BY <1>9 DEF CommitWrites
  <2> QED BY <1>3, <1>s, <2>1, <2>2
<1>10. ASSUME NEW j \in Jobs, Fails(n, j)
       PROVE  seen' \in [Ids -> [Provs -> Entity \cup {None}]] /\ Readings'
  <2>1. Becomes(n, j, "failed") BY <1>10 DEF Fails
  <2>2. CASE j[1] = "commit"
    <3>1. j[2] \in Provs /\ j = <<"commit", j[2]>> BY <2>2 DEF Jobs
    <3>2. seen' = [seen EXCEPT ![n][j[2]] = None] BY <1>10, <2>2 DEF Fails
    <3>3. Becomes(n, <<"commit", j[2]>>, "failed") BY <2>1, <3>1
    <3> QED BY <1>3, <1>s, <3>1, <3>2, <3>3
  <2>3. CASE j[1] # "commit"
    <3>1. seen' = seen BY <1>10, <2>3 DEF Fails
    <3> QED BY <1>2, <1>s, <2>1, <3>1
  <2> QED BY <2>2, <2>3
<1> QED BY <1>4, <1>5, <1>6, <1>7, <1>8, <1>9, <1>10 DEF Works

\* Every provider with a stage file has a stage: the same as OnlyOverlapBreaksStages.
LEMMA OverlapMeansCovers ==
  OnlyOverlapBreaksStages <=> \A p \in tree.jobs : Covers(tree.stages, p)
BY DEF OnlyOverlapBreaksStages, Covers, Begins

\* The jobs' statuses and the credentials are typed by the invariant.
LEMMA TypesFromShape ==
  ASSUME Inv, template \in Templates, tree \in Tree, commit \in [Ids -> Commit],
         seen \in [Ids -> [Provs -> Entity \cup {None}]], ledger \in Entity, outdated \in BOOLEAN
  PROVE  TypeOK
BY DEF Inv, Shape, TypeOK

\* Every step keeps the types, and the stages of every stage file.
LEMMA TypeNext ==
  Inv /\ Inv' /\ TypeInv /\ OnlyOverlapBreaksStages /\ [Next]_vars
    => TypeInv' /\ OnlyOverlapBreaksStages'
<1> SUFFICES ASSUME Inv, TypeInv, OnlyOverlapBreaksStages, [Next]_vars, Inv'
             PROVE  TypeInv' /\ OnlyOverlapBreaksStages'
  OBVIOUS
<1>0. /\ template \in Templates /\ tree \in Tree /\ commit \in [Ids -> Commit]
      /\ seen \in [Ids -> [Provs -> Entity \cup {None}]] /\ ledger \in Entity
      /\ outdated \in BOOLEAN /\ Subjects /\ job \in [Ids -> [Jobs -> Status]]
  BY DEF TypeInv, TypeOK
<1>c. \A p \in tree.jobs : Covers(tree.stages, p) BY OverlapMeansCovers
<1>k. SameStages(tree', tree) => OnlyOverlapBreaksStages'
  <2> SUFFICES ASSUME SameStages(tree', tree) PROVE OnlyOverlapBreaksStages' OBVIOUS
  <2>1. \A p \in tree'.jobs : Covers(tree'.stages, p) BY <1>c DEF SameStages
  <2> QED BY <2>1 DEF OnlyOverlapBreaksStages, Covers, Begins
<1>1. CASE vars' = vars
  <2>1. UNCHANGED <<template, tree, commit, seen, ledger, outdated, job>> BY <1>1 DEF vars
  <2>2. TypeOK' BY <1>0, <2>1, TypesFromShape DEF Inv, Shape, TypeOK
  <2>3. Readings' /\ Subjects' BY <2>1 DEF TypeInv, Readings, Subjects
  <2>4. SameStages(tree', tree) BY <2>1 DEF SameStages
  <2> QED BY <1>k, <2>2, <2>3, <2>4 DEF TypeInv
<1>2. CASE Promote \/ Bind \/ Destroy \/ Develop
  <2>1. /\ tree' \in Tree /\ SameStages(tree', tree) /\ commit' \in [Ids -> Commit] /\ Subjects'
        /\ UNCHANGED <<template, seen, ledger, outdated>>
    BY <1>2, OutsideWrites
  <2>2. PICK n \in Ids : \E c : Arrival(n, c) BY <1>2, OutsideSteps
  <2>3. PICK c : Arrival(n, c) BY <2>2
  <2>4. /\ \A m \in Ids \ {n} : job'[m] = job[m]
        /\ \A j \in Jobs : job'[n][j] = JobsOfCommit(c)[j]
    BY <2>3, StartFacts DEF Arrival, Inv, Shape
  <2>5. Readings'
    <3> SUFFICES ASSUME NEW m \in Ids, NEW p \in Provs, job'[m][<<"commit", p>>] = "reading"
                 PROVE  seen'[m][p] \in Entity
      BY DEF Readings
    <3>1. <<"commit", p>> \in Jobs BY JobNames DEF Kinds
    <3>2. m # n BY <2>4, <3>1, JobsOfCommitFacts
    <3> QED BY <2>1, <2>4, <3>2 DEF TypeInv, Readings
  <2>6. TypeOK' BY <1>0, <2>1 DEF Inv, Shape, TypeOK
  <2> QED BY <1>k, <2>1, <2>5, <2>6 DEF TypeInv
<1>3. ASSUME NEW n \in Ids, Works(n), ~CreateCiStages(n)
      PROVE  TypeInv' /\ OnlyOverlapBreaksStages'
  <2>1. /\ tree' \in Tree /\ SameStages(tree', tree)
        /\ ledger' \in Entity /\ outdated' \in BOOLEAN /\ commit' = commit
    BY <1>3, WorksWrite
  <2>2. seen' \in [Ids -> [Provs -> Entity \cup {None}]] /\ Readings' BY <1>3, ReadingsOfWorks
  <2>3. template' = template
    <3>1. PICK j \in Jobs : \E st : JobStep(n, j, st) BY <1>3, NotStagesSteps
    <3> QED BY <3>1 DEF JobStep
  <2>4. TypeOK' BY <1>0, <2>1, <2>2, <2>3 DEF Inv, Shape, TypeOK
  <2>5. Subjects' BY <1>0, <2>1 DEF Subjects
  <2> QED BY <1>k, <2>1, <2>2, <2>4, <2>5 DEF TypeInv
<1>4. ASSUME NEW n \in Ids, CreateCiStages(n)
      PROVE  TypeInv' /\ OnlyOverlapBreaksStages'
  <2> DEFINE c == StagesCommit(n)
  <2>1. c.tree \in Tree /\ c \in Commit /\ \A p \in c.tree.jobs : Covers(c.tree.stages, p)
    BY StagesWrite
  <2>2. c.title = "added" BY DEF StagesCommit
  <2>3. UNCHANGED <<template, seen, outdated, ledger>> BY <1>4 DEF CreateCiStages, IsRefused
  <2>4. seen' \in [Ids -> [Provs -> Entity \cup {None}]] /\ Readings'
    BY <1>4, ReadingsOfWorks DEF Works
  <2>5. tree' = tree \/ tree' = c.tree
    BY <1>4 DEF CreateCiStages, IsRefused, StagesCommit
  <2>6. commit' = commit \/ (Free # {} /\ commit' = [commit EXCEPT ![NextId] = c])
    BY <1>4 DEF CreateCiStages, StagesCommit
  <2> HIDE DEF c
  <2>7. tree' \in Tree BY <1>0, <2>1, <2>5
  <2>8. OnlyOverlapBreaksStages'
    <3>1. \A p \in tree'.jobs : Covers(tree'.stages, p) BY <1>c, <2>1, <2>5
    <3> QED BY <3>1 DEF OnlyOverlapBreaksStages, Covers, Begins
  <2>9. commit' \in [Ids -> Commit] /\ Subjects'
    <3>1. CASE commit' = commit BY <1>0, <3>1 DEF Subjects
    <3>2. CASE Free # {} /\ commit' = [commit EXCEPT ![NextId] = c]
      <4>1. NextId \in Ids BY <3>2, NextIdFree
      <4>2. commit' \in [Ids -> Commit] BY <1>0, <2>1, <3>2, <4>1
      <4>3. \A m \in Ids : commit'[m] = c \/ commit'[m] = commit[m] BY <1>0, <3>2, <4>1
      <4>4. c.title \notin {"bind", "unbind"} BY <2>2
      <4> QED BY <1>0, <4>2, <4>3, <4>4 DEF Subjects
    <3> QED BY <2>6, <3>1, <3>2
  <2>10. TypeOK' BY <1>0, <2>3, <2>4, <2>7, <2>9 DEF Inv, Shape, TypeOK
  <2> QED BY <2>4, <2>8, <2>9, <2>10 DEF TypeInv
<1> QED BY <1>1, <1>2, <1>3, <1>4 DEF Next

\* They hold at first.
LEMMA TypeInit == Init => TypeInv /\ OnlyOverlapBreaksStages
<1> SUFFICES ASSUME Init PROVE TypeInv /\ OnlyOverlapBreaksStages OBVIOUS
<1>0. FirstEnv \in Envs /\ FirstProvs \in SUBSET Provs BY EnvAssumption DEF FirstProvs
<1>1. NewTree \in Tree
  <2>1. <<FirstEnv>> \in Seq(Envs) BY <1>0
  <2>2. [deps |-> {}, details |-> {}] \in Entity BY DEF Entity
  <2> QED BY <1>0, <2>1, <2>2 DEF NewTree, Tree
<1>2. DeployedTree \in Tree /\ SameStages(DeployedTree, [NewTree EXCEPT !.jobs = FirstProvs])
  <2> DEFINE u == [NewTree EXCEPT !.jobs = FirstProvs]
             e == [deps |-> {FirstEnv}, details |-> FirstProvs]
  <2>1. u \in Tree BY <1>0, <1>1 DEF Tree
  <2>2. e \in Entity BY <1>0 DEF Entity
  <2>3. DeployedTree = [u EXCEPT !.entity = e] BY DEF DeployedTree
  <2> HIDE DEF u, e
  <2>4. [u EXCEPT !.entity = e] \in Tree /\ SameStages([u EXCEPT !.entity = e], u)
    BY <2>1, <2>2 DEF Tree, SameStages
  <2> QED BY <2>3, <2>4 DEF u
<1>3. NewTree.jobs = {} /\ NewTree.stages = <<FirstEnv>> BY DEF NewTree
<1>4. DeployedTree.jobs = FirstProvs /\ DeployedTree.stages = <<FirstEnv>>
  BY <1>1, <1>2, <1>3 DEF SameStages, Tree
<1>5. tree = NewTree \/ tree = DeployedTree BY DEF Init
<1>6. tree \in Tree BY <1>1, <1>2, <1>5
<1>7. NewCommit \in Commit /\ NoCommit \in Commit
  <2>1. NewCommit \in Commit BY <1>1 DEF NewCommit, Commit, Titles
  <2> QED BY <2>1 DEF NoCommit, Commit
<1>8. commit \in [Ids -> Commit] BY <1>7 DEF Init
<1>9. Inv BY InitInv
<1>10. tree.entity \in Entity BY <1>6 DEF Tree
<1>11. TypeOK BY <1>6, <1>8, <1>9, <1>10, TypesFromShape DEF Init
<1>12. Subjects BY DEF Init, Subjects, NewCommit, NoCommit
<1>13. Readings
  <2> SUFFICES ASSUME NEW n \in Ids, NEW p \in Provs PROVE job[n][<<"commit", p>>] # "reading"
    BY DEF Readings
  <2>1. <<"commit", p>> \in Jobs BY JobNames DEF Kinds
  <2> QED BY <2>1 DEF Init
<1>14. OnlyOverlapBreaksStages
  <2>1. CASE tree = NewTree BY <1>3, <2>1 DEF OnlyOverlapBreaksStages
  <2>2. CASE tree = DeployedTree
    <3>1. \A p \in FirstProvs : EnvOf[p] = FirstEnv BY DEF FirstProvs
    <3>2. 1 \in DOMAIN <<FirstEnv>> /\ <<FirstEnv>>[1] = FirstEnv OBVIOUS
    <3> QED BY <1>4, <2>2, <3>1, <3>2 DEF OnlyOverlapBreaksStages
  <2> QED BY <1>5, <2>1, <2>2
<1> QED BY <1>11, <1>12, <1>13, <1>14 DEF TypeInv

\* The invariant of the types.
LEMMA TypeInvariance == Spec => [](TypeInv /\ OnlyOverlapBreaksStages)
BY TypeInit, TypeNext, Invariance, PTL DEF Spec

\* The variables keep their types, for any commits, providers, environments and names.
THEOREM TypeCorrect == Spec => []TypeOK
<1>1. TypeInv => TypeOK BY DEF TypeInv
<1> QED BY <1>1, TypeInvariance, PTL

\* However the environments are named and in whatever order their files are read, the only
\* provider whose stages .gitlab-ci.yml may lack is one whose environment's name begins that
\* of a stage that is there (create-ci-stages.sh, ALREADY_HAS_STAGE).
THEOREM StagesDeclared == Spec => []OnlyOverlapBreaksStages
BY TypeInvariance, PTL

===============================================================================
