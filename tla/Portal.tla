--------------------------------- MODULE Portal --------------------------------
(***************************************************************************)
(* The pages of the portal, with the cards that operate and delete what    *)
(* they show.  AppContext says what a page shows and what the requests     *)
(* name, CardHandlers what the handlers of the cards do; here the handlers *)
(* run, several at once, and go on when their page is left.                *)
(*                                                                         *)
(* A request is sent, is served or fails, and its answer is taken, in      *)
(* three actions.  What a handler does between two awaits is one action.   *)
(***************************************************************************)
EXTENDS Naturals, AppContext, CardHandlers

CONSTANT Clicks  \* bounds the handlers that are started from a card and still run

ASSUME KindsAssumption ==
  \A s \in Settings :
    /\ s.kind \in Kinds /\ s.clicks \subseteq Clicks
    /\ s.view = "management" => s.kind # "other"   \* useAwsApp.tsx:417, 428

VARIABLES
  card,        \* what each card of the page shows
  taskShown,   \* whether the state card shows a task
  stuck,       \* the cards whose spinner no handler takes away any more
  known,       \* whether the page was loaded with something attached to its entity
  thread,      \* the handlers under way
  \* outside the portal
  desired,     \* of each service, how many tasks it is to run
  task,        \* of each service, the status of its task
  stack,       \* of each deployment, whether its infrastructure was asked to go
  workload,    \* of each deployment, whether it has manifests of Kubernetes, and whether what
               \* they made was asked to go
  repo,        \* the entities that have their repository
  listed,      \* the entities in the catalog
  attached,    \* the environments with providers or applications, the providers with
               \* environments
  \* what happened, for the properties
  unseen,      \* the entities that got something attached after their page was opened
  refused      \* the deployments and repositories whose deletion was tried and failed

pageVars == <<card, taskShown, stuck, known>>
worldVars == <<desired, task, stack, workload, repo, listed, attached, unseen, refused>>
vars == <<setting, contextVars, pageVars, thread, worldVars>>

view == setting.view
kind == setting.kind

Cards == {"state", "config", "logs", "logDialog", "audit", "infra", "details", "promo",
          "binding", "remove", "providers", "deleteEnvironment", "deleteProvider"}

CardsOf ==
  [ecs |-> <<"state", "config">>,
   details |-> <<"logDialog", "logs", "audit", "infra", "details">>,
   management |-> <<"remove", "promo", "binding">>,
   environment |-> <<"deleteEnvironment", "providers">>,
   provider |-> <<"deleteProvider">>]

\* The card that deletes what the page is about is the first of its page.
PlansOfPage(place) ==
  [deleteRepo |-> DeleteRepo(place), deleteFromCatalog |-> DeleteFromCatalog(place)]

PlansOfKind(k) ==
  [deleteOne |-> DeleteOne(k), each |-> DeleteEach(k), deleteAll |-> DeleteAll(k),
   deleteProvider |-> DeleteProvider(k)]

OtherPlans ==
  [stateMount |-> StateMount, configMount |-> ConfigMount, start |-> StartTask,
   stop |-> StopTask, save |-> SaveConfig, saveEmpty |-> SaveEmpty,
   logsMount |-> LogsMount, auditMount |-> AuditMount, openLog |-> OpenLog,
   infraMount |-> InfraMount, infraMissing |-> InfraMissing, details |-> DetailsMount,
   promote |-> Promote, bind |-> Bind, unbind |-> Unbind, deleteSecret |-> DeleteSecret,
   addProvider |-> AddProvider, removeProvider |-> RemoveProvider,
   attach |-> UpdateProvider, detach |-> UpdateProvider,
   deleteEnvironment |-> DeleteEnvironment]

PagePlans == [v \in Views |-> PlansOfPage(CardsOf[v][1])]
KindPlans == [k \in Kinds |-> PlansOfKind(k)]

PageHandlers == {"deleteRepo", "deleteFromCatalog"}
KindHandlers == {"deleteOne", "each", "deleteAll", "deleteProvider"}
Handlers == DOMAIN OtherPlans \cup PageHandlers \cup KindHandlers

Plan(h) ==
  IF h \in PageHandlers THEN PagePlans[view][h]
  ELSE IF h \in KindHandlers THEN KindPlans[kind][h] ELSE OtherPlans[h]

PageCards == {CardsOf[view][i] : i \in DOMAIN CardsOf[view]}

-------------------------------------------------------------------------------
(* The handlers under way, one in a slot. *)

MountSlots == {"state", "config", "logs", "audit", "infra", "details"}
ForkSlots == {"repo", "secret", "catalog", "provider"}
Slots == MountSlots \cup Clicks \cup ForkSlots \cup Deps

ASSUME SlotsAssumption ==
  Clicks \cap Deps = {} /\ (Clicks \cup Deps) \cap (MountSlots \cup ForkSlots) = {}

\* h: the handler; step: where it is; got: the last answer; mount: the load whose page its
\* card is on; home: the deployment of that page; dep: the one that it is about;
\* to: what the request under way names.
Thread ==
  [h : Handlers \cup {"none"}, step : Nat, at : {"free", "asleep", "sent", "answered"},
   got : {"", "ok", "none", "pending", "running"}, mount : Loads \cup {None},
   home : Deps \cup {None}, dep : Deps \cup {None}, to : Deps \cup {None}]

Off == [h |-> "none", step |-> 0, at |-> "free", got |-> "", mount |-> None, home |-> None,
        dep |-> None, to |-> None]

StepOf(r) == Plan(r.h).steps[r.step]

\* Whom the request of a step is meant for, and whom it names.
Meant(s, r) == IF s.own THEN r.dep ELSE r.home

Named(s, r, shared) ==
  IF s.call \in CatalogMethods THEN Meant(s, r)
  ELSE IF s.call = "deletePlatformSecret"
  THEN IF app = AppOf[r.home] THEN r.home ELSE None
  ELSE AppliedBackendParams(s.call, s.own, r.dep, shared)

\* The handler at a step: asleep, or with its request sent.
At(r, k, shared) ==
  IF k > Len(Plan(r.h).steps) THEN Off
  ELSE LET s == Plan(r.h).steps[k]
       IN  [h |-> r.h, step |-> k, at |-> IF s.pause THEN "asleep" ELSE "sent", got |-> "",
            mount |-> r.mount, home |-> r.home, dep |-> r.dep,
            to |-> IF s.pause THEN None ELSE Named(s, r, shared)]

\* A handler of a card of the page of a load, which shows d.
Called(h, n, home, d) == [Off EXCEPT !.h = h, !.mount = n, !.home = home, !.dep = d]

DeploymentsOf(a) == {d \in Deps : AppOf[d] = a}

SlotsOf(h, a) ==
  IF h = "each" THEN DeploymentsOf(a)
  ELSE IF h = "deleteRepo" THEN {"repo"}
  ELSE IF h = "deleteSecret" THEN {"secret"}
  ELSE IF h = "deleteFromCatalog" THEN {"catalog"}
  ELSE IF h = "details" THEN {"details"} ELSE {"provider"}

Forked(r, hs, s) == {h \in hs : s \in SlotsOf(h, AppOf[r.home])}

\* Slot t goes on as next, and the handlers hs start.
Goes(t, next, r, hs) ==
  thread' = [s \in Slots |->
    IF s = t THEN next
    ELSE IF Forked(r, hs, s) = {} THEN thread[s]
    ELSE At(Called(CHOOSE h \in Forked(r, hs, s) : TRUE, r.mount, r.home,
                   IF s \in Deps THEN s ELSE r.home), 1, params)]

-------------------------------------------------------------------------------
(* The cards. *)

CardStates == {"off", "busy", "idle", "broken"}

\* Type invariant: what is shown and asked for exists, a handler under way is one of the
\* cards' and knows its page, and only entities are listed, attached or refused.
TypeOK ==
  /\ ContextTypeOK
  /\ card \in [Cards -> CardStates]
  /\ taskShown \in BOOLEAN
  /\ stuck \subseteq Cards
  /\ known \in BOOLEAN
  /\ thread \in [Slots -> Thread]
  /\ desired \in [Deps -> {0, 1}]
  /\ task \in [Deps -> {"none", "pending", "running"}]
  /\ stack \in [Deps -> {"there", "going"}]
  /\ workload \in [Deps -> {"none", "there", "going"}]
  /\ repo \subseteq Apps
  /\ listed \subseteq Apps
  /\ attached \subseteq Apps
  /\ unseen \subseteq Apps
  /\ refused \subseteq Deps \cup Apps

ShownBy(fx, before) ==
  IF "broken" \in fx THEN "broken"
  ELSE IF "idle" \in fx THEN "idle"
  ELSE IF "busy" \in fx THEN "busy" ELSE before

\* What a handler does to its card, if the card is still on the page, and what the handlers
\* that it starts do first.
CardsAfter(r, fx, hs) ==
  [c \in Cards |->
    IF c = Plan(r.h).card THEN ShownBy(fx, card[c])
    ELSE IF \E h \in hs : Plan(h).card = c /\ "busy" \in Plan(h).first THEN "busy"
    ELSE card[c]]

StuckAfter(r, fx) ==
  LET c == Plan(r.h).card
  IN  IF "stuck" \in fx THEN stuck \cup {c}
      ELSE IF fx \cap {"idle", "broken"} # {} THEN stuck \ {c} ELSE stuck

Affect(r, fx, hs) ==
  IF r.mount = current
  THEN /\ card' = CardsAfter(r, fx, hs)
       /\ stuck' = StuckAfter(r, fx)
       /\ taskShown' = IF "display" \in fx THEN r.got \in {"pending", "running"} ELSE taskShown
       /\ UNCHANGED known
  ELSE UNCHANGED pageVars

NoCards ==
  /\ card' = [c \in Cards |-> "off"]
  /\ taskShown' = FALSE
  /\ stuck' = {}

\* What a handler does between two awaits.
Segment(t, next, r, fx, hs) ==
  /\ Goes(t, next, r, hs)
  /\ IF "home" \in fx
     THEN LeavePage /\ NoCards /\ known' = FALSE
     ELSE UNCHANGED contextVars /\ Affect(r, fx, hs)

-------------------------------------------------------------------------------
(* The pages. *)

\* What was asked for by the cards of a page that is left is not awaited any more.
Unmounted == [s \in Slots |-> IF s \in MountSlots THEN Off ELSE thread[s]]

\* A load that nothing remembers: there is no more to tell one from another.
Remembered == {thread[s].mount : s \in Slots}
FreeLoads == {n \in setting.loads \ Remembered : load[n] = Unused}
NextLoad == IF FreeLoads = {} THEN {} ELSE {CHOOSE n \in FreeLoads : TRUE}

Open(n, a) ==
  /\ a \in listed
  /\ \/ OpenPage(n, a) /\ NoCards
     \/ /\ OpenPlainPage(n, a)
        /\ card' = [c \in Cards |-> IF c \in PageCards THEN "idle" ELSE "off"]
        /\ taskShown' = FALSE
        /\ stuck' = {}
  /\ known' = (a \in attached)
  /\ thread' = Unmounted
  /\ unseen' = IF \E s \in Slots : thread[s].home \in DeploymentsOf(a) THEN unseen
               ELSE unseen \ {a}
  /\ UNCHANGED <<setting, desired, task, stack, workload, repo, listed, attached, refused>>

Leave ==
  /\ current # None
  /\ LeavePage
  /\ NoCards
  /\ known' = FALSE
  /\ thread' = Unmounted
  /\ UNCHANGED <<setting, worldVars>>

Switch(n, d) ==
  /\ Select(n, d)
  /\ NoCards
  /\ thread' = Unmounted
  /\ UNCHANGED <<setting, known, worldVars>>

Reload(n) ==
  /\ Refresh(n)
  /\ NoCards
  /\ thread' = Unmounted
  /\ UNCHANGED <<setting, known, worldVars>>

\* The handlers that the cards of a page call when they are shown.  The state and the
\* configuration are those of a service of ECS.
MountHandlers(d, infra) ==
  IF view = "ecs" /\ d \notin Serverless THEN {"stateMount", "configMount"}
  ELSE IF view = "details" THEN {"logsMount", "auditMount", infra} ELSE {}

Mount(n, d, hs) ==
  /\ card' = [c \in Cards |->
       IF \E h \in hs : Plan(h).card = c THEN "busy"
       ELSE IF view = "management" /\ c \in PageCards THEN "idle" ELSE "off"]
  /\ stuck' = {c \in Cards : \E h \in hs : Plan(h).card = c /\ "stuck" \in Plan(h).first}
  /\ thread' = [s \in Slots |->
       IF \E h \in hs : Plan(h).card = s
       THEN At(Called(CHOOSE h \in hs : Plan(h).card = s, n, d, d), 1, params')
       ELSE thread[s]]
  /\ UNCHANGED <<taskShown, known>>

LoadGoesOn(n) ==
  /\ CatalogAnswers(n) \/ StateAnswers(n)
  /\ IF shown' = shown
     THEN UNCHANGED <<pageVars, thread>>
     ELSE \E infra \in {"infraMount", "infraMissing"} :
            Mount(n, shown', MountHandlers(shown', infra))
  /\ UNCHANGED <<setting, worldVars>>

LoadStops(n) ==
  /\ LoadFails(n)
  /\ UNCHANGED <<setting, pageVars, thread, worldVars>>

-------------------------------------------------------------------------------
(* The handlers. *)

HandlersOf(v) ==
  [ecs |-> {"start", "stop", "save", "saveEmpty"},
   details |-> {"openLog"},
   management |-> {"promote", "bind", "unbind", "deleteOne", "deleteAll"},
   environment |-> {"addProvider", "removeProvider", "deleteEnvironment"},
   provider |-> {"deleteProvider"}][v]

\* What the user can click.  The log dialog can be opened again before it is filled.  The
\* cards that start handlers of their own are used once these are over.
Offered(h) ==
  /\ shown # None
  /\ h \in HandlersOf(view)
  /\ h = "openLog" => card["logs"] = "idle"
  /\ h # "openLog" => card[Plan(h).card] = "idle"
  /\ h = "start" => ~taskShown
  /\ h = "stop" => taskShown
  /\ h \in {"deleteEnvironment", "deleteProvider"} => ~known
  /\ view \notin {"ecs", "details"} => \A s \in Slots : thread[s] = Off

Click(t, h) ==
  /\ thread[t] = Off
  /\ Offered(h)
  /\ LET r == Called(h, current, shown, shown)
     IN  Segment(t, At(r, 1, params), r, Plan(h).first, Plan(h).forks)
  /\ UNCHANGED <<setting, worldVars>>

\* Calls whose effect, or answer, depends on when they are served.  The others are served
\* when their answer is taken.
WorldCalls == {"getTaskDetails", "updateService", "deleteStack", "deleteTFProvider",
               "invokeLambda", "deleteRepository", "removeEntityByUid",
               "updateProviderToEnvironment"}

UpdateService(r) ==
  desired' = IF StepOf(r).call # "updateService" \/ r.h = "save" THEN desired
             ELSE [desired EXCEPT ![r.home] = IF r.h = "start" THEN 1 ELSE 0]

DeleteStack(r) ==
  stack' = IF StepOf(r).call \in {"deleteStack", "deleteTFProvider"}
           THEN [stack EXCEPT ![r.dep] = "going"] ELSE stack

\* deleteK8sApp, whichever deployment its handler is about, is given the environment of the page.
DeleteWorkload(r) ==
  workload' = IF StepOf(r).call = "invokeLambda" THEN [workload EXCEPT ![r.home] = "going"]
              ELSE workload

DeleteEntity(r) ==
  /\ repo' = IF StepOf(r).call = "deleteRepository" THEN repo \ {AppOf[r.home]} ELSE repo
  /\ listed' = IF StepOf(r).call = "removeEntityByUid" THEN listed \ {AppOf[r.home]} ELSE listed

\* Another provider or application may remain when one is taken away.
UpdateAttached(r) ==
  IF r.h = "attach" /\ AppOf[r.home] \notin attached
  THEN attached' = attached \cup {AppOf[r.home]} /\ unseen' = unseen \cup {AppOf[r.home]}
  ELSE /\ attached' \in IF r.h = "detach" THEN {attached, attached \ {AppOf[r.home]}}
                        ELSE {attached}
       /\ UNCHANGED unseen

Serve(t) ==
  /\ thread[t].at = "sent" /\ StepOf(thread[t]).call \in WorldCalls
  /\ thread' = [thread EXCEPT ![t] =
       [[[@ EXCEPT !.at = "answered"] EXCEPT !.to = None]
          EXCEPT !.got = IF StepOf(thread[t]).call = "getTaskDetails"
                         THEN task[thread[t].home] ELSE "ok"]]
  /\ UpdateService(thread[t])
  /\ DeleteStack(thread[t])
  /\ DeleteWorkload(thread[t])
  /\ DeleteEntity(thread[t])
  /\ UpdateAttached(thread[t])
  /\ UNCHANGED <<setting, contextVars, pageVars, task, refused>>

\* A pause is over, or the next request of a poll is sent.
Wake(t) ==
  LET r == thread[t]
      s == StepOf(r)
  IN  /\ r.at = "asleep"
      /\ IF s.call = "sleep"
         THEN Segment(t, At(r, r.step + 1, params), r, s.then, s.forks)
         ELSE /\ thread' = [thread EXCEPT ![t] =
                     [[@ EXCEPT !.at = "sent"] EXCEPT !.to = Named(s, r, params)]]
              /\ UNCHANGED <<contextVars, pageVars>>
      /\ UNCHANGED <<setting, worldVars>>

Gone == {d \in Deps : stack[d] = "going"}

Undeleted(r) ==
  IF r.h \in {"deleteOne", "each", "deleteProvider"} THEN {r.dep} \ Gone
  ELSE IF r.h = "deleteRepo" THEN {AppOf[r.home]} \cap repo ELSE {}

\* A request fails, before or after it was served.  The promise of a handler that does not
\* catch the failure is dropped, with its spinner.
Fail(t) ==
  LET r == thread[t]
      s == StepOf(r)
  IN  /\ r.at \in {"sent", "answered"}
      /\ Segment(t, Off, r,
                 IF s.caught THEN s.rescue
                 ELSE IF card[Plan(r.h).card] = "busy" THEN {"stuck"} ELSE {}, {})
      /\ refused' = refused \cup Undeleted(r)
      /\ UNCHANGED <<setting, desired, task, stack, workload, repo, listed, attached, unseen>>

\* The answers that may be taken now.
Answers(r) ==
  IF r.at = "answered" THEN {r.got}
  ELSE IF r.at # "sent" \/ StepOf(r).call \in WorldCalls THEN {}
  ELSE IF StepOf(r).call = "getEKSAppManifests" /\ workload[r.home] = "none" THEN {"none"}
  ELSE {"ok"}

PollAgain(t) ==
  LET r == thread[t]
      s == StepOf(r)
  IN  /\ \E got \in Answers(r) : s.until # {} /\ got \notin s.until
      /\ Segment(t, At(r, r.step, params), r, s.each, {})
      /\ UNCHANGED <<setting, worldVars>>

GoOn(t) ==
  LET r == thread[t]
      s == StepOf(r)
  IN  /\ \E got \in Answers(r) :
           /\ s.until = {} \/ got \in s.until
           /\ Segment(t, At(r, r.step + 1 + (IF got = s.leapOn THEN s.leap ELSE 0), params),
                      r, s.then, s.forks)
      /\ UNCHANGED <<setting, worldVars>>

Continue(t) == PollAgain(t) \/ GoOn(t)

-------------------------------------------------------------------------------
(* Outside the portal. *)

\* ECS brings a service to the number of tasks it is to run.
Converge(d) ==
  /\ \/ desired[d] = 1 /\ task[d] = "none" /\ task' = [task EXCEPT ![d] = "pending"]
     \/ desired[d] = 1 /\ task[d] = "pending" /\ task' = [task EXCEPT ![d] = "running"]
     \/ desired[d] = 0 /\ task[d] # "none" /\ task' = [task EXCEPT ![d] = "none"]
  /\ UNCHANGED <<setting, contextVars, pageVars, thread, desired, stack, workload, repo, listed,
                 attached, unseen, refused>>

\* An application is created in an environment, or a provider added to one, elsewhere.
AttachElsewhere(a) ==
  /\ ~UsesHook
  /\ a \in listed \ attached
  /\ attached' = attached \cup {a}
  /\ unseen' = unseen \cup {a}
  /\ UNCHANGED <<setting, contextVars, pageVars, thread, desired, task, stack, workload, repo,
                 listed, refused>>

\* An application in the clusters of EKS whose management page is opened.
Managed(d) == view = "management" /\ OnEks(kind) /\ AppOf[d] \in setting.pages

Init ==
  /\ ContextInit
  /\ setting \in Settings
  /\ card = [c \in Cards |-> "off"]
  /\ taskShown = FALSE
  /\ stuck = {}
  /\ known = FALSE
  /\ thread = [s \in Slots |-> Off]
  /\ desired = [d \in Deps |-> 0]
  /\ task = [d \in Deps |-> "none"]
  /\ stack = [d \in Deps |-> "there"]
  /\ workload \in {w \in [Deps -> {"none", "there"}] : \A d \in Deps : ~Managed(d) => w[d] = "none"}
  /\ repo = setting.pages
  /\ listed = setting.pages
  /\ attached \in IF view \in {"environment", "provider"} THEN SUBSET setting.pages ELSE {{}}
  /\ unseen = {}
  /\ refused = {}

Next ==
  \/ \E n \in NextLoad, a \in Apps : Open(n, a)
  \/ \E n \in NextLoad, d \in Deps : Switch(n, d)
  \/ \E n \in NextLoad : Reload(n)
  \/ \E n \in Loads : LoadGoesOn(n) \/ LoadStops(n)
  \/ Leave
  \/ \E t \in setting.clicks, h \in Handlers : Click(t, h)
  \/ \E t \in Slots : Serve(t) \/ Fail(t) \/ Wake(t) \/ Continue(t)
  \/ \E d \in Deps : Converge(d)
  \/ \E a \in Apps : AttachElsewhere(a)

Spec == Init /\ [][Next]_vars

\* Requests and pauses end, and ECS goes on.  A handler that the user started is not held up
\* by the others, nor by one that polls.  Loads may take for ever, and the user need not do
\* anything.
Turn(t) == Serve(t) \/ Wake(t) \/ Continue(t) \/ Fail(t)

Fairness ==
  /\ \A t \in Clicks : WF_vars(Turn(t))
  /\ WF_vars(\E t \in Slots \ Clicks : Turn(t))
  /\ WF_vars(\E d \in Deps : Converge(d))

FairSpec == Spec /\ Fairness

-------------------------------------------------------------------------------
(* Properties. *)

\* A request of a card of the page names the deployment that it is meant for, as long as
\* the load that shows the page is the one that set the shared parameters last.  (A load that
\* was overtaken may set them later, useAwsApp.tsx:456; and the page of an environment or a
\* provider sets none: its requests without an override name the last application visited.)
CallsAreOwn ==
  \A t \in Slots :
    LET r == thread[t]
    IN  r.at = "sent" /\ r.mount = current /\ (UsesHook => ours)
          => r.to = Meant(StepOf(r), r) \/ (~UsesHook /\ ~StepOf(r).own)

UnderWay(hs, x) ==
  \E t \in Slots : thread[t].h \in hs /\ x \in {thread[t].dep, AppOf[thread[t].home]}

\* An entity that left the catalog has no repository, or its deletion is under way or was
\* refused.  A provider of Terraform keeps its own (DeleteProviderCard.tsx:138).
RepositoryTried ==
  \A a \in setting.pages \ listed :
    a \notin repo \/ a \in refused \/ UnderWay({"deleteRepo"}, a)
      \/ (view = "provider" /\ ByTerraform(kind))

\* ... every deployment of it was asked to go, is being asked, or refused to.
StacksTried ==
  view \in {"management", "provider"} =>
    \A d \in Deps :
      AppOf[d] \in setting.pages \ listed /\ (view = "provider" => d = Lowest[AppOf[d]]) =>
        stack[d] = "going" \/ d \in refused \/ UnderWay({"each"}, d)

\* ... nothing is attached to it that was there when its page was opened.
AttachedUnseen ==
  view \in {"environment", "provider"} =>
    \A a \in attached \ listed : a \in unseen

\* ... no deployment of it went before the Kubernetes objects of the environment that the page
\* showed, or the page's environment had none.
WorkloadFirst ==
  \A d \in Deps : Managed(d) /\ stack[d] = "going" =>
    \E e \in DeploymentsOf(AppOf[d]) : workload[e] # "there"

\* What leaves the catalog, with the deletions of the cards that are not awaited, takes its
\* repository and the infrastructure of its deployments along, but for those whose deletion
\* failed: nobody can click on them again.  Of an application on EKS, the Kubernetes objects
\* of ONE environment are sure to have been asked to go (see WorkloadsTried).
RemovedIsTried == RepositoryTried /\ StacksTried /\ AttachedUnseen /\ WorkloadFirst

\* What DeleteComponentCard.tsx:160 says, and test T619 expects (tests.md:155, E17) of an
\* application on EKS with Kubernetes objects in each of its environments: a deployment that
\* is deleted is deleted from the Kubernetes cluster, and before its stack is.
WorkloadsTried ==
  \A d \in Deps :
    stack[d] = "going" /\ (\A e \in DeploymentsOf(AppOf[d]) : workload[e] # "none")
      => workload[d] = "going"

\* A start waits for tasks of a service that is to run none, or a stop for the end of one
\* that is to go on: the other was clicked meanwhile.
Overtaken(c) ==
  c = "state" /\ \E t \in Slots :
    LET r == thread[t]
    IN  /\ r.mount = current
        /\ \/ r.h = "start" /\ desired[r.home] = 0
           \/ r.h = "stop" /\ desired[r.home] = 1

Waiting(c) == card[c] = "busy" /\ c \notin stuck /\ ~Overtaken(c)

\* No card of a page shows its spinner for ever, though the handlers poll without a bound,
\* are interleaved and go on after other pages: except when its handler has failed without
\* a catch or returned early (stuck), or polls for what a later click has made impossible.
BusyEnds == \A c \in Cards : []<>~Waiting(c)

===============================================================================
