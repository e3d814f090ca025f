------------------------------- MODULE StageFiles -------------------------------
(***************************************************************************)
(* What the create-ci-stages scripts of src/backstage-reference/common/    *)
(* cicd/scripts write into the stage file of an environment provider, and  *)
(* which of those jobs GitLab puts into the pipeline of a commit.          *)
(*                                                                         *)
(* A stage file is a function from its jobs to the jobs each one "needs".  *)
(*   iac     iac-deployment      creds   get-aws-creds                     *)
(*   build   build-image         deploy  deploy-image                      *)
(*   clean   delete-aws-creds    commit  git-commit                        *)
(*   sam     sam-package                                                   *)
(***************************************************************************)

ExampleNodejs ==
  [iac |-> {}, creds |-> {}, build |-> {"creds"}, deploy |-> {"build"}, clean |-> {"build"}]

ExampleNodejsRds ==
  [iac |-> {}, creds |-> {}, build |-> {"creds"}, deploy |-> {"build"}, clean |-> {"build"}]

ExamplePythonFlask ==
  [iac |-> {}, creds |-> {}, build |-> {"creds"}, deploy |-> {"build"}, clean |-> {"build"}]

ExampleTfNodejs ==
  [iac |-> {}, creds |-> {}, build |-> {"creds"}, deploy |-> {"build"}, clean |-> {"build"}]

ExampleSpringboot == [iac |-> {}, build |-> {}, deploy |-> {"build"}]

ExampleServerlessRestApi == [iac |-> {}, sam |-> {}]

ExampleEksNodejsRds ==
  [iac |-> {}, creds |-> {}, build |-> {"creds"}, commit |-> {"build"}]

ExamplePythonFlaskEks ==
  [iac |-> {}, creds |-> {}, build |-> {"creds"}, commit |-> {"build"}]

ExampleSpringbootEks == [iac |-> {}, build |-> {}, commit |-> {"build"}]

ExampleGeneric == [iac |-> {}]

\* By the APP_TEMPLATE_NAME of an application's .gitlab-ci.yml.
StageFile ==
  [nodejs |-> ExampleNodejs, nodejsRds |-> ExampleNodejsRds,
   pythonFlask |-> ExamplePythonFlask, tfNodejs |-> ExampleTfNodejs,
   springboot |-> ExampleSpringboot, serverlessRestApi |-> ExampleServerlessRestApi,
   eksNodejsRds |-> ExampleEksNodejsRds, pythonFlaskEks |-> ExamplePythonFlaskEks,
   springbootEks |-> ExampleSpringbootEks, generic |-> ExampleGeneric]

TemplateNames == DOMAIN StageFile

Kinds == {"iac", "creds", "build", "deploy", "clean", "commit", "sam"}

JobsOf(template) == DOMAIN StageFile[template]

\* The templates whose iac-deployment leaves the entity to the git-commit job.
EksTemplates == {"eksNodejsRds", "pythonFlaskEks", "springbootEks"}

-------------------------------------------------------------------------------
(* The rules of the jobs, for the title of a commit.  "generate" stands for *)
(* "generate CICD stages", "added" for the titles create-ci-stages gives    *)
(* its own commits, "push" for every title without a meaning.               *)

Titles == {"initial", "generate", "added", "bind", "unbind", "destroy", "push"}

\* The commit changes .iac, or create-ci-stages has named the environment in its title.
\* The rules for "Bind Resource to env" and "unBind Resource to env" match commits that
\* are pushed with ci.skip only.
IacRule(title, changesIac, named) == title # "generate" /\ (changesIac \/ (title = "added" /\ named))

\* springboot gives its image job rules of its own.
SpringbootBuildRule(title) == title # "generate"

KanikoBuildRule(title) == title \notin {"generate", "destroy"}

CredsRule(title) == title # "generate"

CleanRule(title) == title # "generate"

CommitRule(title) == title \notin {"generate", "destroy"}

SamRule(title) == title # "generate"

\* The only rule excludes a title: no rule includes the job in any pipeline.
DeployRule(title) == FALSE

Includes(template, kind, title, changesIac, named) ==
  /\ kind \in JobsOf(template)
  /\ kind = "iac" => IacRule(title, changesIac, named)
  /\ kind = "creds" => CredsRule(title)
  /\ kind = "build" => IF "creds" \in JobsOf(template) THEN KanikoBuildRule(title)
                                                       ELSE SpringbootBuildRule(title)
  /\ kind = "deploy" => DeployRule(title)
  /\ kind = "clean" => CleanRule(title)
  /\ kind = "commit" => CommitRule(title)
  /\ kind = "sam" => SamRule(title)

\* GitLab refuses a pipeline in which a job needs another that the rules left out.
NeedsHold(template, title) ==
  \A kind \in JobsOf(template) : Includes(template, kind, title, FALSE, FALSE) =>
    \A needed \in StageFile[template][kind] : Includes(template, needed, title, FALSE, FALSE)
===============================================================================
