------------------------------- MODULE AppContext ------------------------------
(***************************************************************************)
(* useAwsApp (harmonix-frontend/src/hooks): what the portal knows of the   *)
(* application on the page.  A load asks the catalog for the environments  *)
(* of the application, chooses one, gives its provider to the API client   *)
(* as the shared parameters, and shows the page.  The name of the          *)
(* application, the environment asked for and the shared parameters        *)
(* outlive the page, and a load that has been overtaken still sets the     *)
(* parameters when the catalog answers it: only what it SHOWS is ignored.  *)
(*                                                                         *)
(* The pages of environments and providers do not use the hook: they show  *)
(* at once and set nothing.  An environment of an application has one      *)
(* provider here, and stands with it for a deployment.                     *)
(***************************************************************************)

CONSTANTS Apps,        \* what has a page: applications (environments, providers)
          Deps,        \* deployments of an application in an environment
          AppOf,       \* the application of each
          EnvOf,       \* the environment of each
          Lowest,      \* of each application, the deployment at the lowest level
          Serverless,  \* the deployments whose state is asked for before showing them
          Settings,    \* the kinds of pages opened, each with the entities that have one
          Loads,       \* bounds the loads and pages that something still remembers
          None

ASSUME DepsAssumption ==
  /\ AppOf \in [Deps -> Apps] /\ Lowest \in [Apps -> Deps]
  /\ \A a \in Apps : AppOf[Lowest[a]] = a
ASSUME ServerlessAssumption == Serverless \subseteq Deps
ASSUME NoneAssumption == None \notin Apps \cup Deps \cup Loads

Envs == {EnvOf[d] : d \in Deps}

Views == {"ecs", "details", "management", "environment", "provider"}

ASSUME SettingsAssumption ==
  \A s \in Settings : s.view \in Views /\ s.pages \subseteq Apps /\ s.loads \subseteq Loads

VARIABLES
  setting,  \* the pages that are opened, and whose; it does not change
  app,      \* _app_name, and the platform parameters of the API client
  wanted,   \* _change_to_env_name
  load,     \* the loads under way, and the one that is shown
  current,  \* the last load started, if its page has not been left
  shown,    \* the deployment shown
  params,   \* the shared parameters of the API client
  ours      \* whether the load of the page set them, and none has since

contextVars == <<app, wanted, load, current, shown, params, ours>>

UsesHook == setting.view \in {"ecs", "details", "management"}

Load == [at : {"unused", "catalog", "state", "shown"}, app : Apps \cup {None},
         dep : Deps \cup {None}]
Unused == [at |-> "unused", app |-> None, dep |-> None]

ContextTypeOK ==
  /\ setting \in Settings
  /\ app \in Apps \cup {None}
  /\ wanted \in Envs \cup {None}
  /\ load \in [Loads -> Load]
  /\ current \in Loads \cup {None}
  /\ shown \in Deps \cup {None}
  /\ params \in Deps \cup {None}
  /\ ours \in BOOLEAN

ContextInit ==
  /\ app = None
  /\ wanted = None
  /\ load = [n \in Loads |-> Unused]
  /\ current = None
  /\ shown = None
  /\ params = None
  /\ ours = FALSE

\* The loads once the page is left: the answer to one under way is still awaited.
LoadsLeft == [n \in Loads |-> IF load[n].at = "shown" THEN Unused ELSE load[n]]

Begin(n, l) ==
  /\ load[n] = Unused
  /\ load' = [LoadsLeft EXCEPT ![n] = l]
  /\ current' = n
  /\ ours' = FALSE

Asking(a) == [at |-> "catalog", app |-> a, dep |-> None]

\* A page is opened.  The environment asked for is forgotten when the application changes.
OpenPage(n, a) ==
  /\ UsesHook
  /\ Begin(n, Asking(a))
  /\ app' = a
  /\ wanted' = IF a = app THEN wanted ELSE None
  /\ shown' = None
  /\ UNCHANGED params

OpenPlainPage(n, a) ==
  /\ ~UsesHook
  /\ Begin(n, [at |-> "shown", app |-> a, dep |-> Lowest[a]])
  /\ shown' = Lowest[a]
  /\ UNCHANGED <<app, wanted, params>>

LeavePage ==
  /\ load' = LoadsLeft
  /\ current' = None
  /\ shown' = None
  /\ ours' = FALSE
  /\ UNCHANGED <<app, wanted, params>>

\* The deployment is remembered, not its environment.
SlipSelect(n, d) ==
  /\ UsesHook
  /\ shown # None
  /\ AppOf[d] = AppOf[shown] /\ EnvOf[d] # EnvOf[shown]
  /\ wanted' = d
  /\ Begin(n, Asking(AppOf[d]))
  /\ shown' = None
  /\ UNCHANGED <<app, params>>

\* The user selects another environment of the application: _setCurrentProvider.
Select(n, d) ==
  /\ UsesHook
  /\ shown # None
  /\ AppOf[d] = AppOf[shown] /\ EnvOf[d] # EnvOf[shown]
  /\ wanted' = EnvOf[d]
  /\ Begin(n, Asking(AppOf[d]))
  /\ shown' = None
  /\ UNCHANGED <<app, params>>

\* The card of a serverless application loads the page again after a deployment.
Refresh(n) ==
  /\ UsesHook
  /\ shown \in Serverless
  /\ Begin(n, Asking(AppOf[shown]))
  /\ shown' = None
  /\ UNCHANGED <<app, wanted, params>>

\* currentEnvironment.  The environment asked for need not be one of this application: it
\* is read when the catalog answers.
Chosen(a) ==
  IF wanted = None THEN {Lowest[a]} ELSE {d \in Deps : AppOf[d] = a /\ EnvOf[d] = wanted}

\* A load ends: its page is shown if no other load was started since.
Ends(n, d) ==
  IF n = current
  THEN /\ load' = [load EXCEPT ![n] = [at |-> "shown", app |-> load[n].app, dep |-> d]]
       /\ shown' = d
  ELSE /\ load' = [load EXCEPT ![n] = Unused]
       /\ UNCHANGED shown

\* The end of getData once the catalog has answered.  setBackendParams is called by
\* every load that gets here.
CatalogAnswers(n) ==
  /\ load[n].at = "catalog"
  /\ \E d \in Chosen(load[n].app) :
       /\ params' = d
       /\ ours' = (n = current)
       /\ IF d \in Serverless
          THEN /\ load' = [load EXCEPT ![n] = [at |-> "state", app |-> load[n].app, dep |-> d]]
               /\ UNCHANGED shown
          ELSE Ends(n, d)
  /\ UNCHANGED <<app, wanted, current>>

\* populateServerlessState: both requests may fail, and the page is shown all the same.
StateAnswers(n) ==
  /\ load[n].at = "state"
  /\ Ends(n, load[n].dep)
  /\ UNCHANGED <<app, wanted, current, params, ours>>

\* The catalog fails, or the application has no such environment: nothing is shown.
LoadFails(n) ==
  /\ load[n].at = "catalog"
  /\ load' = [load EXCEPT ![n] = Unused]
  /\ current' = IF n = current THEN None ELSE current
  /\ UNCHANGED <<app, wanted, shown, params, ours>>

===============================================================================
