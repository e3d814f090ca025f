------------------------------ MODULE PortalProofs ------------------------------
(***************************************************************************)
(* The pages of the portal and the handlers of their cards, proved for any *)
(* number of applications, deployments, loads and clicks: a request of a   *)
(* card of the page names the deployment it is meant for.                  *)
(*                                                                         *)
(* First what the handlers are made of, then the slots they run in, the    *)
(* loads of the page, the actions, and the theorems.                       *)
(***************************************************************************)
EXTENDS Portal, SequenceTheorems, TLAPS

-------------------------------------------------------------------------------
(* The handlers and their steps. *)

\* What a handler does to its card, as CardHandlers lists it.
Effects == {"busy", "idle", "broken", "display", "home", "stuck"}

\* The steps of handlers: only what may be overridden is sent with an override.
Step ==
  {s \in [call : Methods \cup CatalogMethods \cup {"sleep"}, own : BOOLEAN, pause : BOOLEAN,
          until : SUBSET {"none", "pending", "running"}, each : SUBSET Effects,
          then : SUBSET Effects, forks : SUBSET Handlers, caught : BOOLEAN,
          rescue : SUBSET Effects, leapOn : {"", "none", "running"}, leap : Nat] :
     s.own => s.call \in Overridable}

\* What a step is made with.
LEMMA AwaitStep == 
  ASSUME NEW m \in Methods \cup CatalogMethods \cup {"sleep"}
  PROVE  /\ Await(m) \in Step /\ Await(m).call = m
         /\ Await(m).forks = {} /\ Await(m).leap = 0
BY DEF Await, Step

\* A pause is a step.
LEMMA PauseStep ==
  Pause \in Step /\ Pause.call = "sleep" /\ Pause.forks = {} /\ Pause.leap = 0
BY AwaitStep DEF Pause, Step, Await

\* An override may be given to a step whose method takes it.
LEMMA OwnStep ==
  ASSUME NEW s \in Step, s.call \in Overridable
  PROVE  /\ Own(s) \in Step /\ Own(s).call = s.call
         /\ Own(s).forks = s.forks /\ Own(s).leap = s.leap
BY DEF Own, Step

\* A poll is a step.
LEMMA PollStep ==
  ASSUME NEW m \in Methods, NEW answers \in SUBSET {"none", "pending", "running"}
  PROVE  /\ Poll(m, answers) \in Step /\ Poll(m, answers).call = m
         /\ Poll(m, answers).forks = {} /\ Poll(m, answers).leap = 0
BY DEF Poll, Await, Step

\* What is done after each answer leaves the step a step.
LEMMA EachStep ==
  ASSUME NEW s \in Step, NEW fx \in SUBSET Effects
  PROVE  /\ Each(s, fx) \in Step /\ Each(s, fx).call = s.call
         /\ Each(s, fx).forks = s.forks /\ Each(s, fx).leap = s.leap
BY DEF Each, Step

\* So does what is done after it,
LEMMA ThenStep ==
  ASSUME NEW s \in Step, NEW fx \in SUBSET Effects
  PROVE  /\ Then(s, fx) \in Step /\ Then(s, fx).call = s.call
         /\ Then(s, fx).forks = s.forks /\ Then(s, fx).leap = s.leap
BY DEF Then, Step

\* ... the handlers that it starts,
LEMMA ForkStep ==
  ASSUME NEW s \in Step, NEW hs \in SUBSET Handlers
  PROVE  /\ Fork(s, hs) \in Step /\ Fork(s, hs).call = s.call
         /\ Fork(s, hs).forks = hs /\ Fork(s, hs).leap = s.leap
BY DEF Fork, Step

\* ... what is done when it fails,
LEMMA CatchStep ==
  ASSUME NEW s \in Step, NEW fx \in SUBSET Effects
  PROVE  /\ Catch(s, fx) \in Step /\ Catch(s, fx).call = s.call
         /\ Catch(s, fx).forks = s.forks /\ Catch(s, fx).leap = s.leap
BY DEF Catch, Step

\* ... and the steps that are left out after it.
LEMMA LeapStep ==
  ASSUME NEW s \in Step, NEW got \in {"none", "running"}, NEW n \in Nat
  PROVE  /\ Leap(s, got, n) \in Step /\ Leap(s, got, n).call = s.call
         /\ Leap(s, got, n).forks = s.forks /\ Leap(s, got, n).leap = n
BY DEF Leap, Step

\* The names of the calls and of the handlers.
LEMMA MethodNames ==
  /\ CatalogMethods = {"getEntities", "getEntityByRef", "getLocationByRef",
                       "removeEntityByUid", "refreshEntity"}
  /\ Overridable = EcsMethods \cup RepositoryMethods \cup StackMethods \cup ResourceMethods
                     \cup LambdaMethods
BY DEF CatalogMethods, Overridable

\* The handlers by name.
LEMMA HandlerNames ==
  Handlers = {"stateMount", "configMount", "logsMount", "auditMount", "infraMount", "infraMissing",
   "details", "start", "stop", "save", "saveEmpty", "openLog", "promote", "bind", "unbind",
   "deleteOne", "each", "deleteAll", "deleteRepo", "deleteSecret", "deleteFromCatalog",
   "addProvider", "removeProvider", "attach", "detach", "deleteEnvironment", "deleteProvider"}
BY DEF Handlers, OtherPlans, PageHandlers, KindHandlers

\* The methods that the handlers call, and which of them take an override.
LEMMA MethodsOfCalls ==
  /\ {"getTaskDetails", "describeTaskDefinition", "updateService", "updateTaskDefinition",
      "getLogStreamNames", "getAuditDetails", "getLogStreamData", "getResourceGroupResources",
      "getSecret", "getSSMParameter", "promoteApp", "bindResource", "unBindResource",
      "getEKSAppManifests", "invokeLambda", "deleteTFProvider", "deleteStack",
      "deleteRepository", "deletePlatformSecret", "updateProviderToEnvironment"}
       \subseteq Methods
  /\ {"getSSMParameter", "deleteTFProvider", "deleteStack", "updateProviderToEnvironment"}
       \subseteq Overridable
  /\ "deletePlatformSecret" \notin Overridable
  /\ \A m \in CatalogMethods \cup {"sleep"} : m \notin Overridable
BY DEF Methods, Overridable, EcsMethods, RepositoryMethods, StackMethods, ResourceMethods,
       LambdaMethods, PlatformReads, BindingMethods, PromotionMethods, CatalogMethods

\* What a handler may be.
IsPlan(p) ==
  /\ p.card \in Cards
  /\ p.first \in SUBSET Effects
  /\ p.forks \in SUBSET Handlers
  /\ p.steps \in Seq(Step)

\* A handler made of steps is a plan.
LEMMA HandlerIsPlan ==
  ASSUME NEW c \in Cards, NEW fx \in SUBSET Effects, NEW hs \in SUBSET Handlers,
         NEW st \in Seq(Step)
  PROVE  IsPlan(Handler(c, fx, hs, st))
BY DEF IsPlan, Handler

\* A handler may have no step and start nothing.
LEMMA NothingToDo == <<>> \in Seq(Step) /\ {} \in SUBSET Handlers
OBVIOUS

\* The cards by name.
LEMMA CardNames ==
  Cards = {"state", "config", "logs", "logDialog", "audit", "infra", "details", "promo",
           "binding", "remove", "providers", "deleteEnvironment", "deleteProvider"}
BY DEF Cards

\* The handlers of the state and configuration cards.
LEMMA StatePlans ==
  /\ IsPlan(StateMount) /\ IsPlan(ConfigMount) /\ IsPlan(StartTask) /\ IsPlan(StopTask)
  /\ IsPlan(SaveConfig) /\ IsPlan(SaveEmpty)
<1>1. IsPlan(StateMount)
  <2> DEFINE s == Catch(Then(Await("getTaskDetails"), {"idle", "display"}), {"broken"})
  <2>1. s \in Step
    BY AwaitStep, ThenStep, CatchStep, MethodsOfCalls DEF Effects
  <2>2. <<s>> \in Seq(Step)
    BY <2>1
  <2> QED
    BY <2>2, HandlerIsPlan, CardNames, HandlerNames DEF StateMount, Effects
<1>2. IsPlan(ConfigMount)
  <2> DEFINE s == Catch(Then(Await("describeTaskDefinition"), {"idle"}), {"broken"})
  <2>1. s \in Step
    BY AwaitStep, ThenStep, CatchStep, MethodsOfCalls DEF Effects
  <2>2. <<s>> \in Seq(Step)
    BY <2>1
  <2> QED
    BY <2>2, HandlerIsPlan, CardNames, HandlerNames DEF ConfigMount, Effects
<1>3. IsPlan(StartTask)
  <2> DEFINE s1 == Then(Await("updateService"), {"busy"})
             s2 == Leap(Then(Poll("getTaskDetails", {"pending", "running"}),
                             {"idle", "display"}), "running", 1)
             s3 == Then(Each(Poll("getTaskDetails", {"running"}), {"display"}), {"display"})
  <2>1. s1 \in Step
    BY AwaitStep, ThenStep, MethodsOfCalls DEF Effects
  <2>2. s2 \in Step
    BY PollStep, ThenStep, LeapStep, MethodsOfCalls DEF Effects
  <2>3. s3 \in Step
    BY PollStep, ThenStep, EachStep, MethodsOfCalls DEF Effects
  <2>4. <<s1, s2, s3>> \in Seq(Step)
    BY <2>1, <2>2, <2>3
  <2> QED
    BY <2>4, HandlerIsPlan, CardNames, HandlerNames DEF StartTask, Effects
<1>4. IsPlan(StopTask)
  <2> DEFINE s1 == Then(Await("updateService"), {"busy"})
             s2 == Then(Poll("getTaskDetails", {"none"}), {"idle", "display"})
  <2>1. s1 \in Step
    BY AwaitStep, ThenStep, MethodsOfCalls DEF Effects
  <2>2. s2 \in Step
    BY PollStep, ThenStep, MethodsOfCalls DEF Effects
  <2>3. <<s1, s2>> \in Seq(Step)
    BY <2>1, <2>2
  <2> QED
    BY <2>3, HandlerIsPlan, CardNames, HandlerNames DEF StopTask, Effects
<1>5. IsPlan(SaveConfig)
  <2> DEFINE s1 == Catch(Await("updateTaskDefinition"), {"broken"})
             s2 == Then(Await("updateService"), {"idle"})
  <2>1. s1 \in Step
    BY AwaitStep, CatchStep, MethodsOfCalls DEF Effects
  <2>2. s2 \in Step
    BY AwaitStep, ThenStep, MethodsOfCalls DEF Effects
  <2>3. <<s1, s2>> \in Seq(Step)
    BY <2>1, <2>2
  <2> QED
    BY <2>3, HandlerIsPlan, CardNames, HandlerNames DEF SaveConfig, Effects
<1>6. IsPlan(SaveEmpty)
  BY NothingToDo, HandlerIsPlan, CardNames DEF SaveEmpty, Effects
<1> QED
  BY <1>1, <1>2, <1>3, <1>4, <1>5, <1>6

\* The handlers of the logs, the audit and the infrastructure.
LEMMA DetailsPlans ==
  /\ IsPlan(LogsMount) /\ IsPlan(AuditMount) /\ IsPlan(OpenLog)
  /\ IsPlan(InfraMount) /\ IsPlan(InfraMissing) /\ IsPlan(DetailsMount)
<1> DEFINE Simple(m, fx, rescue) == Catch(Then(Await(m), fx), rescue)
<1>1. \A m \in Methods, fx \in SUBSET Effects, rescue \in SUBSET Effects :
        Simple(m, fx, rescue) \in Step /\ <<Simple(m, fx, rescue)>> \in Seq(Step)
  <2> SUFFICES ASSUME NEW m \in Methods, NEW fx \in SUBSET Effects,
                      NEW rescue \in SUBSET Effects
               PROVE  Simple(m, fx, rescue) \in Step /\ <<Simple(m, fx, rescue)>> \in Seq(Step)
    OBVIOUS
  <2>1. Simple(m, fx, rescue) \in Step
    BY AwaitStep, ThenStep, CatchStep
  <2> HIDE DEF Simple
  <2> QED
    BY <2>1
<1>2. IsPlan(LogsMount) /\ IsPlan(AuditMount)
  BY <1>1, HandlerIsPlan, CardNames, MethodsOfCalls DEF LogsMount, AuditMount, Effects
<1>3. IsPlan(OpenLog) /\ IsPlan(DetailsMount)
  BY <1>1, HandlerIsPlan, CardNames, MethodsOfCalls DEF OpenLog, DetailsMount, Effects
<1>4. IsPlan(InfraMount)
  <2> DEFINE s == Catch(Fork(Then(Await("getResourceGroupResources"), {"idle"}), {"details"}),
                        {"broken"})
  <2>1. s \in Step
    BY AwaitStep, ThenStep, CatchStep, ForkStep, MethodsOfCalls, HandlerNames DEF Effects
  <2>2. <<s>> \in Seq(Step)
    BY <2>1
  <2> QED
    BY <2>2, HandlerIsPlan, CardNames DEF InfraMount, Effects
<1>5. IsPlan(InfraMissing)
  BY NothingToDo, HandlerIsPlan, CardNames DEF InfraMissing, Effects
<1> QED
  BY <1>2, <1>3, <1>4, <1>5

\* The handlers that promote, bind, and delete the secret.
LEMMA ManagementPlans ==
  IsPlan(Promote) /\ IsPlan(Bind) /\ IsPlan(Unbind) /\ IsPlan(DeleteSecret)
<1>1. IsPlan(Promote)
  <2> DEFINE s1 == Await("getEntities")
             s2 == Await("getEntityByRef")
             s3 == Own(Await("getSSMParameter"))
             s4 == Catch(Then(Await("promoteApp"), {"idle"}), {"idle"})
  <2>1. s1 \in Step /\ s2 \in Step
    BY AwaitStep, MethodNames
  <2>2. s3 \in Step
    BY AwaitStep, OwnStep, MethodsOfCalls
  <2>3. s4 \in Step
    BY AwaitStep, ThenStep, CatchStep, MethodsOfCalls DEF Effects
  <2>4. <<s1, s2, s3, s4>> \in Seq(Step)
    BY <2>1, <2>2, <2>3
  <2> QED
    BY <2>4, HandlerIsPlan, CardNames DEF Promote, Effects
<1>2. IsPlan(Bind)
  <2> DEFINE s == Catch(Then(Await("bindResource"), {"idle"}), {"idle"})
  <2>1. s \in Step
    BY AwaitStep, ThenStep, CatchStep, MethodsOfCalls DEF Effects
  <2>2. <<s>> \in Seq(Step)
    BY <2>1
  <2> QED
    BY <2>2, HandlerIsPlan, CardNames DEF Bind, Effects
<1>3. IsPlan(Unbind)
  <2> DEFINE s == Catch(Then(Await("unBindResource"), {"idle"}), {"idle"})
  <2>1. s \in Step
    BY AwaitStep, ThenStep, CatchStep, MethodsOfCalls DEF Effects
  <2>2. <<s>> \in Seq(Step)
    BY <2>1
  <2> QED
    BY <2>2, HandlerIsPlan, CardNames DEF Unbind, Effects
<1>4. IsPlan(DeleteSecret)
  <2> DEFINE s == Catch(Await("deletePlatformSecret"), {"idle"})
  <2>1. s \in Step
    BY AwaitStep, CatchStep, MethodsOfCalls DEF Effects
  <2>2. <<s>> \in Seq(Step)
    BY <2>1
  <2> QED
    BY <2>2, HandlerIsPlan, CardNames DEF DeleteSecret, Effects
<1> QED
  BY <1>1, <1>2, <1>3, <1>4

\* The handlers of the environment's page.
LEMMA ProviderPlans ==
  IsPlan(AddProvider) /\ IsPlan(RemoveProvider) /\ IsPlan(UpdateProvider)
    /\ IsPlan(DeleteEnvironment)
<1> DEFINE s == Catch(Await("refreshEntity"), {"idle"})
<1>1. s \in Step
  BY AwaitStep, CatchStep, MethodNames DEF Effects
<1>2. <<s>> \in Seq(Step) /\ <<s, s>> \in Seq(Step)
  <2> HIDE DEF s
  <2> QED
    BY <1>1
<1>3. IsPlan(AddProvider) /\ IsPlan(RemoveProvider)
  BY <1>2, HandlerIsPlan, CardNames, HandlerNames DEF AddProvider, RemoveProvider
<1>4. IsPlan(UpdateProvider)
  <2> DEFINE u == Own(Await("updateProviderToEnvironment"))
  <2>1. u \in Step
    BY AwaitStep, OwnStep, MethodsOfCalls
  <2>2. <<u>> \in Seq(Step)
    BY <2>1
  <2> QED
    BY <2>2, HandlerIsPlan, CardNames DEF UpdateProvider
<1>5. IsPlan(DeleteEnvironment)
  <2> DEFINE s1 == Pause
             s2 == Fork(Then(Pause, {"idle", "home"}), {"deleteFromCatalog"})
  <2>1. s1 \in Step
    BY PauseStep
  <2>2. s2 \in Step
    BY PauseStep, ThenStep, ForkStep, HandlerNames DEF Effects
  <2>3. <<s1, s2>> \in Seq(Step)
    BY <2>1, <2>2
  <2> QED
    BY <2>3, HandlerIsPlan, CardNames, HandlerNames DEF DeleteEnvironment, Effects
<1> QED
  BY <1>3, <1>4, <1>5

\* The handlers of a page that delete its repository and its entity.
LEMMA PlansOfPages ==
  ASSUME NEW c \in Cards PROVE IsPlan(DeleteRepo(c)) /\ IsPlan(DeleteFromCatalog(c))
<1>1. IsPlan(DeleteRepo(c))
  <2> DEFINE s == Catch(Await("deleteRepository"), {"idle"})
  <2>1. s \in Step
    BY AwaitStep, CatchStep, MethodsOfCalls DEF Effects
  <2>2. <<s>> \in Seq(Step)
    BY <2>1
  <2> QED
    BY <2>2, HandlerIsPlan DEF DeleteRepo, Effects
<1>2. IsPlan(DeleteFromCatalog(c))
  <2> DEFINE s1 == Await("getLocationByRef")
             s2 == Await("removeEntityByUid")
  <2>1. s1 \in Step /\ s2 \in Step
    BY AwaitStep, MethodNames
  <2>2. <<s1, s2>> \in Seq(Step)
    BY <2>1
  <2> QED
    BY <2>2, HandlerIsPlan DEF DeleteFromCatalog, Effects
<1> QED
  BY <1>1, <1>2

\* The steps that delete a deployment.
LEMMA DeletionSteps ==
  ASSUME NEW k \in Kinds, NEW done \in SUBSET Effects
  PROVE  DeleteFromSingleProvider(k, done) \in Seq(Step)
<1> DEFINE e1 == Leap(Catch(Await("getEKSAppManifests"), {"idle"}), "none", 2)
           e2 == Catch(Await("getSSMParameter"), {"idle"})
           e3 == Catch(Await("invokeLambda"), {"idle"})
           s == Catch(Then(Own(Await(IF ByTerraform(k) THEN "deleteTFProvider"
                                     ELSE "deleteStack")), done), {"idle"})
<1>1. e1 \in Step /\ e2 \in Step /\ e3 \in Step
  <2>1. e1 \in Step
    BY AwaitStep, CatchStep, LeapStep, MethodsOfCalls DEF Effects
  <2>2. e2 \in Step
    BY AwaitStep, CatchStep, MethodsOfCalls DEF Effects
  <2>3. e3 \in Step
    BY AwaitStep, CatchStep, MethodsOfCalls DEF Effects
  <2> QED
    BY <2>1, <2>2, <2>3
<1>2. s \in Step
  <2> DEFINE m == IF ByTerraform(k) THEN "deleteTFProvider" ELSE "deleteStack"
  <2>1. m \in Methods /\ m \in Overridable
    BY MethodsOfCalls
  <2> HIDE DEF m
  <2>2. Own(Await(m)) \in Step
    BY <2>1, AwaitStep, OwnStep
  <2>3. Catch(Then(Own(Await(m)), done), {"idle"}) \in Step
    BY <2>2, ThenStep, CatchStep DEF Effects
  <2> QED
    BY <2>3 DEF m
<1>3. DeleteK8sApp \in Seq(Step)
  <2>1. <<e1, e2, e3>> \in Seq(Step)
    <3> HIDE DEF e1, e2, e3
    <3> QED
      BY <1>1
  <2> QED
    BY <2>1 DEF DeleteK8sApp
<1>4. <<s>> \in Seq(Step)
  <2> HIDE DEF s
  <2> QED
    BY <1>2
<1>5. (IF OnEks(k) THEN DeleteK8sApp ELSE <<>>) \in Seq(Step)
  BY <1>3
<1>6. (IF OnEks(k) THEN DeleteK8sApp ELSE <<>>) \o <<s>> \in Seq(Step)
  <2> HIDE DEF s
  <2> QED
    BY <1>4, <1>5, ConcatProperties
<1> QED
  BY <1>6 DEF DeleteFromSingleProvider

\* The handlers that depend on what is deleted.
LEMMA PlansOfKinds ==
  ASSUME NEW k \in Kinds
  PROVE  /\ IsPlan(DeleteOne(k)) /\ IsPlan(DeleteEach(k))
         /\ IsPlan(DeleteAll(k)) /\ IsPlan(DeleteProvider(k))
<1>1. IsPlan(DeleteOne(k))
  <2>1. IsPlan(Handler("remove", {"idle"}, {}, <<>>))
    BY NothingToDo, HandlerIsPlan, CardNames DEF Effects
  <2>2. IsPlan(Handler("remove", {"busy"}, {}, DeleteFromSingleProvider(k, {"idle"})))
    BY DeletionSteps, HandlerIsPlan, CardNames, NothingToDo DEF Effects
  <2> QED
    BY <2>1, <2>2 DEF DeleteOne
<1>2. IsPlan(DeleteEach(k))
  <2>1. IsPlan(Handler("remove", {"idle"}, {}, <<>>))
    BY NothingToDo, HandlerIsPlan, CardNames DEF Effects
  <2>2. IsPlan(Handler("remove", {}, {}, DeleteFromSingleProvider(k, {})))
    BY DeletionSteps, HandlerIsPlan, CardNames, NothingToDo DEF Effects
  <2> QED
    BY <2>1, <2>2 DEF DeleteEach
<1> DEFINE s1 == Fork(Pause, {"deleteRepo"})
           s2 == Fork(Then(Pause, {"idle"}), {"deleteSecret", "deleteFromCatalog"})
           s3 == Then(Pause, {"home"})
           s4 == Then(Pause, {"idle"})
           s5 == Fork(Then(Pause, {"idle"}), {"deleteFromCatalog"})
           p1 == Catch(Own(Await("deleteTFProvider")), {"idle"})
           p2 == Catch(Own(Await("deleteStack")), {"idle"})
<1>3. s1 \in Step /\ s2 \in Step /\ s3 \in Step /\ s4 \in Step /\ s5 \in Step
  <2>1. s1 \in Step
    BY PauseStep, ForkStep, HandlerNames
  <2>2. s3 \in Step /\ s4 \in Step
    BY PauseStep, ThenStep DEF Effects
  <2>3. s2 \in Step /\ s5 \in Step
    <3>1. {"deleteSecret", "deleteFromCatalog"} \in SUBSET Handlers
            /\ {"deleteFromCatalog"} \in SUBSET Handlers
      BY HandlerNames
    <3> HIDE DEF s4
    <3> QED
      BY <2>2, <3>1, ForkStep DEF s4
  <2> QED
    BY <2>1, <2>2, <2>3
<1>4. p1 \in Step /\ p2 \in Step
  <2>1. Own(Await("deleteTFProvider")) \in Step /\ Own(Await("deleteStack")) \in Step
    BY AwaitStep, OwnStep, MethodsOfCalls
  <2> QED
    BY <2>1, CatchStep DEF Effects
<1>5. /\ <<s4>> \in Seq(Step) /\ <<s1, s2, s3>> \in Seq(Step)
      /\ <<p1, s5>> \in Seq(Step) /\ <<p2, s1, s5, s3>> \in Seq(Step)
  <2> HIDE DEF s1, s2, s3, s4, s5, p1, p2
  <2>1. <<s4>> \in Seq(Step) /\ <<s1, s2, s3>> \in Seq(Step)
    BY <1>3
  <2>2. <<p1, s5>> \in Seq(Step)
    BY <1>3, <1>4
  <2>3. <<p2, s1, s5, s3>> \in Seq(Step)
    BY <1>3, <1>4
  <2> QED
    BY <2>1, <2>2, <2>3
<1>6. IsPlan(DeleteAll(k))
  <2> DEFINE st == IF k = "other" THEN <<>>
                   ELSE IF ByTerraform(k) THEN <<s4>> ELSE <<s1, s2, s3>>
  <2>1. st \in Seq(Step)
    BY <1>5, NothingToDo
  <2>2. IsPlan(Handler("remove", {}, {"each"}, st))
    <3> HIDE DEF st
    <3> QED
      BY <2>1, HandlerIsPlan, CardNames, HandlerNames
  <2> QED
    BY <2>2 DEF DeleteAll
<1>7. IsPlan(DeleteProvider(k))
  <2> DEFINE st == IF k = "other" THEN <<>>
                   ELSE IF ByTerraform(k) THEN <<p1, s5>> ELSE <<p2, s1, s5, s3>>
             fx == IF k = "other" THEN {"busy", "stuck"} ELSE {"busy"}
  <2>1. st \in Seq(Step) /\ fx \in SUBSET Effects
    BY <1>5, NothingToDo DEF Effects
  <2>2. IsPlan(Handler("deleteProvider", fx, {}, st))
    <3> HIDE DEF st, fx
    <3> QED
      BY <2>1, HandlerIsPlan, CardNames, NothingToDo
  <2> QED
    BY <2>2 DEF DeleteProvider
<1> QED
  BY <1>1, <1>2, <1>6, <1>7

-------------------------------------------------------------------------------
(* What a handler under way is, given the setting of the pages. *)

PlanIn(set, h) ==
  IF h \in PageHandlers THEN PagePlans[set.view][h]
  ELSE IF h \in KindHandlers THEN KindPlans[set.kind][h] ELSE OtherPlans[h]

StepIn(set, r) == PlanIn(set, r.h).steps[r.step]

HookIn(set) == set.view \in {"ecs", "details", "management"}

\* A handler under way is one of the cards' and at one of its steps.
Live(set, r) ==
  r.at # "free" =>
    /\ r.h \in Handlers
    /\ r.step \in 1 .. Len(PlanIn(set, r.h).steps)
    /\ r.mount \in Loads /\ r.home \in Deps /\ r.dep \in Deps

\* It is about the deployment that its page shows, as long as the page is there.
OfPage(r, cur, sh) == r.at # "free" /\ r.mount = cur => sh # None /\ r.home = sh

\* Its request names whom it is meant for.
OwnOf(set, r, cur, o) ==
  r.at = "sent" /\ r.mount = cur /\ (HookIn(set) => o)
    => r.to = Meant(StepIn(set, r), r) \/ (~HookIn(set) /\ ~StepIn(set, r).own)

\* What the load of the page knows is what is shown and what was given to the API client.
LoadOf(l) ==
  /\ l.at # "unused" => l.app \in Apps
  /\ l.at \in {"state", "shown"} => l.dep \in Deps /\ AppOf[l.dep] = l.app

Shows ==
  /\ \A n \in Loads : LoadOf(load[n])
  /\ shown # None => current # None /\ load[current].at = "shown" /\ load[current].dep = shown
  /\ current # None /\ HookIn(setting) => load[current].app = app
  /\ ours => current # None /\ load[current].at \in {"state", "shown"}
               /\ params = load[current].dep

Threads ==
  \A s \in Slots : /\ Live(setting, thread[s])
                   /\ OfPage(thread[s], current, shown)
                   /\ OwnOf(setting, thread[s], current, ours)

Inv == TypeOK /\ Shows /\ Threads

\* The parts of the type invariant.
PageTypeOK ==
  /\ card \in [Cards -> CardStates]
  /\ taskShown \in BOOLEAN
  /\ stuck \subseteq Cards
  /\ known \in BOOLEAN

WorldTypeOK ==
  /\ desired \in [Deps -> {0, 1}]
  /\ task \in [Deps -> {"none", "pending", "running"}]
  /\ stack \in [Deps -> {"there", "going"}]
  /\ workload \in [Deps -> {"none", "there", "going"}]
  /\ repo \subseteq Apps
  /\ listed \subseteq Apps
  /\ attached \subseteq Apps
  /\ unseen \subseteq Apps
  /\ refused \subseteq Deps \cup Apps

\* The type invariant is its parts.
LEMMA TypeParts ==
  TypeOK <=> ContextTypeOK /\ PageTypeOK /\ thread \in [Slots -> Thread] /\ WorldTypeOK
BY DEF TypeOK, PageTypeOK, WorldTypeOK

\* Plans and steps depend on nothing but the setting.
LEMMA InTheSetting ==
  /\ \A h : Plan(h) = PlanIn(setting, h)
  /\ \A r : StepOf(r) = StepIn(setting, r)
  /\ UsesHook <=> HookIn(setting)
<1>1. \A h : Plan(h) = PlanIn(setting, h)
  BY DEF Plan, PlanIn, view, kind
<1> QED
  BY <1>1 DEF StepOf, StepIn, UsesHook, HookIn

\* Every handler of a page is one that can be carried out.
LEMMA SettledPlans ==
  ASSUME NEW set \in Settings, NEW h \in Handlers PROVE IsPlan(PlanIn(set, h))
<1>1. set.view \in Views /\ set.kind \in Kinds
  BY SettingsAssumption, KindsAssumption
<1>2. CardsOf[set.view][1] \in Cards
  BY <1>1 DEF Views, CardsOf, Cards
<1>3. CASE h \in PageHandlers
  <2> DEFINE c == CardsOf[set.view][1]
  <2>1. PlanIn(set, h) = PlansOfPage(c)[h]
    BY <1>1, <1>3 DEF PlanIn, PagePlans
  <2>2. IsPlan(DeleteRepo(c)) /\ IsPlan(DeleteFromCatalog(c))
    BY <1>2, PlansOfPages
  <2> HIDE DEF c
  <2> QED
    BY <1>3, <2>1, <2>2 DEF PageHandlers, PlansOfPage
<1>4. CASE h \in KindHandlers
  <2>1. h \notin PageHandlers
    BY <1>4 DEF PageHandlers, KindHandlers
  <2>2. PlanIn(set, h) = PlansOfKind(set.kind)[h]
    BY <1>1, <1>4, <2>1 DEF PlanIn, KindPlans
  <2>3. /\ IsPlan(DeleteOne(set.kind)) /\ IsPlan(DeleteEach(set.kind))
        /\ IsPlan(DeleteAll(set.kind)) /\ IsPlan(DeleteProvider(set.kind))
    BY <1>1, PlansOfKinds
  <2> QED
    BY <1>4, <2>2, <2>3 DEF KindHandlers, PlansOfKind
<1>5. CASE h \in DOMAIN OtherPlans
  <2>1. h \notin PageHandlers /\ h \notin KindHandlers
    BY <1>5 DEF PageHandlers, KindHandlers, OtherPlans
  <2>2. PlanIn(set, h) = OtherPlans[h]
    BY <2>1 DEF PlanIn
  <2>3. IsPlan(OtherPlans[h])
    BY <1>5, StatePlans, DetailsPlans, ManagementPlans, ProviderPlans DEF OtherPlans
  <2> QED
    BY <2>2, <2>3
<1> QED
  BY <1>3, <1>4, <1>5 DEF Handlers

-------------------------------------------------------------------------------
(* A handler at a step, and what its request names. *)

\* A slot that is off is free.
LEMMA OffIsFree == Off \in Thread /\ Off.at = "free" /\ Off.mount = None
BY DEF Off, Thread

\* A request names a deployment, or none.
LEMMA NamedType ==
  ASSUME NEW s \in Step, NEW r, r.home \in Deps, r.dep \in Deps,
         NEW shared \in Deps \cup {None}
  PROVE  Named(s, r, shared) \in Deps \cup {None}
BY DEF Named, Meant, AppliedBackendParams

\* The override is honoured, and without it the shared parameters are those of the page.
LEMMA NamedIsMeant ==
  ASSUME NEW s \in Step, NEW r, NEW shared,
         HookIn(setting) => app = AppOf[r.home] /\ shared = r.home
  PROVE  Named(s, r, shared) = Meant(s, r) \/ (~HookIn(setting) /\ ~s.own)
<1>1. CASE s.call \in CatalogMethods
  BY <1>1 DEF Named
<1>2. CASE s.call \notin CatalogMethods /\ s.call = "deletePlatformSecret"
  <2>1. ~s.own
    BY <1>2, MethodsOfCalls DEF Step
  <2> QED
    BY <1>2, <2>1 DEF Named, Meant
<1>3. CASE s.call \notin CatalogMethods /\ s.call # "deletePlatformSecret"
  <2>1. CASE s.own
    BY <1>3, <2>1 DEF Named, Meant, AppliedBackendParams, Step
  <2>2. CASE ~s.own
    BY <1>3, <2>2 DEF Named, Meant, AppliedBackendParams, Step
  <2> QED
    BY <2>1, <2>2
<1> QED
  BY <1>1, <1>2, <1>3

\* The steps of a plan are steps.
LEMMA StepIsStep ==
  ASSUME NEW set \in Settings, NEW h \in Handlers,
         NEW k \in 1 .. Len(PlanIn(set, h).steps)
  PROVE  PlanIn(set, h).steps[k] \in Step
BY SettledPlans DEF IsPlan

\* What At makes of a handler that is told to go on with step k.
LEMMA AtWorks ==
  ASSUME setting \in Settings, NEW r, NEW k \in Nat \ {0}, NEW shared \in Deps \cup {None},
         r.h \in Handlers, r.mount \in Loads, r.home \in Deps, r.dep \in Deps
  PROVE  LET a == At(r, k, shared)
         IN  /\ a \in Thread
             /\ Live(setting, a)
             /\ a.at # "free" => /\ a.mount = r.mount /\ a.home = r.home /\ a.dep = r.dep
                                 /\ StepIn(setting, a) \in Step
             /\ a.at = "sent" => a.to = Named(StepIn(setting, a), r, shared)
<1> DEFINE st == PlanIn(setting, r.h).steps
           a == At(r, k, shared)
<1>1. CASE k > Len(st)
  <2>1. a = Off
    BY <1>1, InTheSetting DEF At
  <2> QED
    BY <2>1, OffIsFree DEF Live
<1>2. CASE ~(k > Len(st))
  <2>1. st \in Seq(Step)
    BY SettledPlans DEF IsPlan
  <2>2. k \in 1 .. Len(st) /\ st[k] \in Step
    <3>1. Len(st) \in Nat
      BY <2>1
    <3>2. k \in 1 .. Len(st)
      BY <1>2, <3>1
    <3> QED
      BY <2>1, <3>2
  <2> DEFINE s == st[k]
             at == IF s.pause THEN "asleep" ELSE "sent"
             to == IF s.pause THEN None ELSE Named(s, r, shared)
  <2>3. a = [h |-> r.h, step |-> k, at |-> at, got |-> "", mount |-> r.mount,
             home |-> r.home, dep |-> r.dep, to |-> to]
    BY <1>2, InTheSetting DEF At
  <2>4. to \in Deps \cup {None} /\ at \in {"asleep", "sent"} /\ (at = "sent" => to = Named(s, r, shared))
    BY <2>2, NamedType
  <2> HIDE DEF at, to, a
  <2>5. a \in Thread
    BY <2>2, <2>3, <2>4 DEF Thread
  <2>6. /\ a.h = r.h /\ a.step = k /\ a.at = at /\ a.to = to
        /\ a.mount = r.mount /\ a.home = r.home /\ a.dep = r.dep
    BY <2>3
  <2>7. StepIn(setting, a) = s
    BY <2>6 DEF StepIn
  <2>8. Live(setting, a)
    BY <2>2, <2>6 DEF Live
  <2>9. /\ a.at # "free" => /\ a.mount = r.mount /\ a.home = r.home /\ a.dep = r.dep
                             /\ StepIn(setting, a) \in Step
        /\ a.at = "sent" => a.to = Named(StepIn(setting, a), r, shared)
    BY <2>2, <2>4, <2>6, <2>7
  <2> QED
    BY <2>5, <2>8, <2>9 DEF a
<1> QED
  BY <1>1, <1>2

\* A handler that may be told to go on: its page is the one shown, if it is there.
Fit(r) ==
  /\ r.h \in Handlers /\ r.mount \in Loads /\ r.home \in Deps /\ r.dep \in Deps
  /\ r.mount = current => shown # None /\ r.home = shown

\* A slot as the invariant wants it, as long as the page is there.
Sound(a) ==
  /\ a \in Thread
  /\ Live(setting, a)
  /\ OfPage(a, current, shown)
  /\ OwnOf(setting, a, current, ours)

\* A slot that is off is as the invariant wants it.
LEMMA OffIsSound == Sound(Off)
BY OffIsFree DEF Sound, Live, OfPage, OwnOf

\* The shared parameters are those of the page's deployment if the load of the page set them.
LEMMA PageParams ==
  ASSUME Inv, NEW r, Fit(r), r.mount = current, HookIn(setting), ours
  PROVE  app = AppOf[r.home] /\ params = r.home
<1>1. shown # None /\ r.home = shown /\ current \in Loads /\ r.home \in Deps
  BY DEF Fit
<1>2. load[current].at = "shown" /\ load[current].dep = shown
  BY <1>1 DEF Inv, Shows
<1>3. LoadOf(load[current]) /\ load[current].app = app /\ params = load[current].dep
  BY <1>1, NoneAssumption DEF Inv, Shows
<1> QED
  BY <1>1, <1>2, <1>3 DEF LoadOf

\* So is one whose handler goes on with a step.
LEMMA NextIsSound ==
  ASSUME Inv, NEW r, Fit(r), NEW k \in Nat \ {0}
  PROVE  Sound(At(r, k, params))
<1> DEFINE a == At(r, k, params)
<1>1. setting \in Settings /\ params \in Deps \cup {None}
  BY DEF Inv, TypeOK, ContextTypeOK
<1>2. /\ a \in Thread
      /\ Live(setting, a)
      /\ a.at # "free" => /\ a.mount = r.mount /\ a.home = r.home /\ a.dep = r.dep
                          /\ StepIn(setting, a) \in Step
      /\ a.at = "sent" => a.to = Named(StepIn(setting, a), r, params)
  BY <1>1, AtWorks DEF Fit
<1> HIDE DEF a
<1>3. OfPage(a, current, shown)
  BY <1>2 DEF OfPage, Fit
<1>4. OwnOf(setting, a, current, ours)
  <2> SUFFICES ASSUME a.at = "sent", a.mount = current, HookIn(setting) => ours
               PROVE  \/ a.to = Meant(StepIn(setting, a), a)
                      \/ ~HookIn(setting) /\ ~StepIn(setting, a).own
    BY DEF OwnOf
  <2> DEFINE s == StepIn(setting, a)
  <2>1. s \in Step /\ a.to = Named(s, r, params) /\ r.mount = current
    BY <1>2
  <2>2. HookIn(setting) => app = AppOf[r.home] /\ params = r.home
    BY <2>1, PageParams
  <2> HIDE DEF s
  <2>3. Named(s, r, params) = Meant(s, r) \/ (~HookIn(setting) /\ ~s.own)
    BY <2>1, <2>2, NamedIsMeant
  <2>4. Meant(s, r) = Meant(s, a)
    BY <1>2 DEF Meant
  <2> QED
    BY <2>1, <2>3, <2>4 DEF s
<1> QED
  BY <1>2, <1>3, <1>4 DEF Sound, a

\* What a handler is called with.
LEMMA CalledIs ==
  ASSUME NEW h, NEW n, NEW home, NEW d
  PROVE  LET c == Called(h, n, home, d)
         IN  c.h = h /\ c.mount = n /\ c.home = home /\ c.dep = d
BY DEF Called, Off

\* So are all slots when one goes on and others start.
LEMMA GoesWorks ==
  ASSUME Inv, NEW t \in Slots, NEW next, Sound(next), NEW r, Fit(r),
         NEW hs \in SUBSET Handlers, Goes(t, next, r, hs)
  PROVE  thread' \in [Slots -> Thread] /\ \A s \in Slots : Sound(thread'[s])
<1>1. thread' = [s \in Slots |->
         IF s = t THEN next
         ELSE IF Forked(r, hs, s) = {} THEN thread[s]
         ELSE At(Called(CHOOSE h \in Forked(r, hs, s) : TRUE, r.mount, r.home,
                        IF s \in Deps THEN s ELSE r.home), 1, params)]
  BY DEF Goes
<1>2. ASSUME NEW s \in Slots PROVE Sound(thread'[s])
  <2>1. CASE s = t
    BY <1>1, <2>1
  <2>2. CASE s # t /\ Forked(r, hs, s) = {}
    <3>1. thread'[s] = thread[s]
      BY <1>1, <2>2
    <3>2. thread[s] \in Thread
      BY DEF Inv, TypeOK
    <3>3. Sound(thread[s])
      BY <3>2 DEF Inv, Threads, Sound
    <3> QED
      BY <3>1, <3>3
  <2>3. CASE s # t /\ Forked(r, hs, s) # {}
    <3> DEFINE h == CHOOSE x \in Forked(r, hs, s) : TRUE
               d == IF s \in Deps THEN s ELSE r.home
               c == Called(h, r.mount, r.home, d)
    <3>1. h \in Handlers
      <4>1. h \in Forked(r, hs, s)
        BY <2>3
      <4> QED
        BY <4>1 DEF Forked
    <3>2. d \in Deps
      BY DEF Fit
    <3>3. c.h = h /\ c.mount = r.mount /\ c.home = r.home /\ c.dep = d
      BY CalledIs
    <3>4. thread'[s] = At(c, 1, params)
      BY <1>1, <2>3
    <3> HIDE DEF h, d, c
    <3>5. Fit(c)
      BY <3>1, <3>2, <3>3 DEF Fit
    <3>6. Sound(At(c, 1, params))
      BY <3>5, NextIsSound
    <3> QED
      BY <3>4, <3>6
  <2> QED
    BY <2>1, <2>2, <2>3
<1>3. \A s \in Slots : thread'[s] \in Thread
  BY <1>2 DEF Sound
<1> QED
  BY <1>1, <1>2, <1>3

\* Sound slots make the threads of a state with the same page, or with no page at all.
LEMMA SoundThreads ==
  ASSUME \A s \in Slots : Sound(thread'[s]), setting' = setting,
         \/ current' = current /\ shown' = shown /\ ours' = ours
         \/ current' = None
  PROVE  Threads'
<1> SUFFICES ASSUME NEW s \in Slots
             PROVE  /\ Live(setting', thread'[s])
                    /\ OfPage(thread'[s], current', shown')
                    /\ OwnOf(setting', thread'[s], current', ours')
  BY DEF Threads
<1> DEFINE a == thread'[s]
<1>1. Sound(a)
  OBVIOUS
<1> HIDE DEF a
<1>2. Live(setting', a)
  BY <1>1 DEF Sound
<1>3. CASE current' = current /\ shown' = shown /\ ours' = ours
  BY <1>1, <1>2, <1>3 DEF Sound, a
<1>4. CASE current' = None
  <2>1. a.at # "free" => a.mount # None
    BY <1>1, NoneAssumption DEF Sound, Live
  <2>2. OfPage(a, None, shown') /\ OwnOf(setting', a, None, ours')
    BY <2>1 DEF OfPage, OwnOf
  <2> QED
    BY <1>2, <1>4, <2>2 DEF a
<1> QED
  BY <1>3, <1>4

-------------------------------------------------------------------------------
(* What the page shows. *)

\* The records of loads.
LEMMA LoadRecords ==
  /\ Unused \in Load /\ LoadOf(Unused)
  /\ \A a \in Apps : Asking(a) \in Load /\ LoadOf(Asking(a)) /\ Asking(a).app = a
                     /\ Asking(a).at = "catalog"
BY DEF Unused, Asking, Load, LoadOf

\* Leaving a page leaves the loads that are under way.
LEMMA LoadsAreLeft ==
  ASSUME ContextTypeOK, Shows
  PROVE  /\ LoadsLeft \in [Loads -> Load]
         /\ \A n \in Loads : LoadOf(LoadsLeft[n])
<1>1. \A n \in Loads : LoadsLeft[n] \in Load /\ LoadOf(LoadsLeft[n])
  <2> SUFFICES ASSUME NEW n \in Loads PROVE LoadsLeft[n] \in Load /\ LoadOf(LoadsLeft[n])
    OBVIOUS
  <2>1. load[n] \in Load /\ LoadOf(load[n])
    BY DEF ContextTypeOK, Shows
  <2>2. LoadsLeft[n] = IF load[n].at = "shown" THEN Unused ELSE load[n]
    BY DEF LoadsLeft
  <2> QED
    BY <2>1, <2>2, LoadRecords
<1>2. LoadsLeft \in [Loads -> Load]
  <2>1. LoadsLeft = [n \in Loads |-> LoadsLeft[n]]
    BY DEF LoadsLeft
  <2> QED
    BY <1>1, <2>1
<1> QED
  BY <1>1, <1>2

\* The page is left.
LEMMA PageIsLeft ==
  ASSUME ContextTypeOK, Shows, LeavePage, setting' = setting
  PROVE  ContextTypeOK' /\ Shows' /\ current' = None
<1>1. load' = LoadsLeft /\ current' = None /\ shown' = None /\ ours' = FALSE
        /\ app' = app /\ wanted' = wanted /\ params' = params
  BY DEF LeavePage
<1>2. ContextTypeOK'
  BY <1>1, LoadsAreLeft DEF ContextTypeOK
<1>3. Shows'
  BY <1>1, LoadsAreLeft DEF Shows
<1> QED
  BY <1>1, <1>2, <1>3

\* A page is opened, or loads again.
LEMMA PageBegins ==
  ASSUME ContextTypeOK, Shows, setting' = setting, NEW n \in Loads, NEW l \in Load, LoadOf(l),
         Begin(n, l), params' = params, app' \in Apps \cup {None},
         wanted' \in Envs \cup {None},
         HookIn(setting) => l.app = app',
         \/ shown' = None
         \/ l.at = "shown" /\ shown' = l.dep
  PROVE  ContextTypeOK' /\ Shows' /\ current' = n
<1>1. load' = [LoadsLeft EXCEPT ![n] = l] /\ current' = n /\ ours' = FALSE
  BY DEF Begin
<1>2. load'[n] = l
  BY <1>1, LoadsAreLeft
<1>3. load' \in [Loads -> Load]
  BY <1>1, LoadsAreLeft
<1>4. \A m \in Loads : LoadOf(load'[m])
  <2> TAKE m \in Loads
  <2>1. CASE m = n
    BY <1>2, <2>1
  <2>2. CASE m # n
    <3>1. load'[m] = LoadsLeft[m]
      BY <1>1, <2>2, LoadsAreLeft
    <3> QED
      BY <3>1, LoadsAreLeft
  <2> QED
    BY <2>1, <2>2
<1>5. shown' \in Deps \cup {None}
  BY DEF Load
<1>6. ContextTypeOK'
  BY <1>1, <1>3, <1>5 DEF ContextTypeOK
<1>7. Shows'
  BY <1>1, <1>2, <1>4, NoneAssumption DEF Shows
<1> QED
  BY <1>1, <1>6, <1>7

\* A page is opened, of an application or a plain one.
LEMMA PageOpens ==
  ASSUME ContextTypeOK, Shows, setting' = setting, NEW n \in Loads, NEW a \in Apps,
         OpenPage(n, a) \/ OpenPlainPage(n, a)
  PROVE  ContextTypeOK' /\ Shows' /\ current' = n
<1>1. CASE OpenPage(n, a)
  <2>1. /\ Begin(n, Asking(a)) /\ app' = a /\ shown' = None /\ params' = params
        /\ wanted' = IF a = app THEN wanted ELSE None
    BY <1>1 DEF OpenPage
  <2>2. wanted' \in Envs \cup {None}
    BY <2>1 DEF ContextTypeOK
  <2> QED
    BY <2>1, <2>2, LoadRecords, PageBegins
<1>2. CASE OpenPlainPage(n, a)
  <2> DEFINE l == [at |-> "shown", app |-> a, dep |-> Lowest[a]]
  <2>1. /\ Begin(n, l) /\ shown' = Lowest[a] /\ app' = app /\ wanted' = wanted
        /\ params' = params /\ ~HookIn(setting)
    BY <1>2, InTheSetting DEF OpenPlainPage
  <2>2. l \in Load /\ LoadOf(l) /\ l.at = "shown" /\ l.dep = Lowest[a]
    BY DepsAssumption DEF Load, LoadOf
  <2>3. app' \in Apps \cup {None} /\ wanted' \in Envs \cup {None}
    BY <2>1 DEF ContextTypeOK
  <2> HIDE DEF l
  <2> QED
    BY <2>1, <2>2, <2>3, PageBegins
<1> QED
  BY <1>1, <1>2

\* What is shown is of the application whose page it is.
LEMMA ShownIsOfThePage ==
  ASSUME ContextTypeOK, Shows, shown # None
  PROVE  /\ current \in Loads /\ shown \in Deps
         /\ load[current].app = AppOf[shown] /\ AppOf[shown] \in Apps
         /\ HookIn(setting) => app = AppOf[shown]
<1>1. current \in Loads /\ current # None /\ shown \in Deps
        /\ load[current].at = "shown" /\ load[current].dep = shown
  BY NoneAssumption DEF ContextTypeOK, Shows
<1>2. LoadOf(load[current])
  BY <1>1 DEF Shows
<1>3. load[current].app = AppOf[shown] /\ AppOf[shown] \in Apps
  BY <1>1, <1>2, DepsAssumption DEF LoadOf
<1> QED
  BY <1>1, <1>3 DEF Shows

\* The page of an application loads again.
LEMMA PageLoadsAgain ==
  ASSUME ContextTypeOK, Shows, setting' = setting, NEW n \in Loads,
         (\E d \in Deps : Select(n, d)) \/ Refresh(n)
  PROVE  ContextTypeOK' /\ Shows' /\ current' = n
<1>1. shown # None /\ HookIn(setting) /\ shown' = None /\ app' = app /\ params' = params
  <2>1. CASE \E d \in Deps : Select(n, d)
    BY <2>1, InTheSetting DEF Select
  <2>2. CASE Refresh(n)
    BY <2>2, InTheSetting, ServerlessAssumption, NoneAssumption DEF Refresh
  <2> QED
    BY <2>1, <2>2
<1>2. wanted' \in Envs \cup {None} /\ Begin(n, Asking(AppOf[shown]))
  <2>1. CASE \E d \in Deps : Select(n, d)
    BY <2>1 DEF Select, Envs
  <2>2. CASE Refresh(n)
    BY <2>2 DEF Refresh, ContextTypeOK
  <2> QED
    BY <2>1, <2>2
<1>3. AppOf[shown] \in Apps /\ app = AppOf[shown]
  BY <1>1, ShownIsOfThePage
<1>4. app' \in Apps \cup {None}
  BY <1>1 DEF ContextTypeOK
<1> QED
  BY <1>1, <1>2, <1>3, <1>4, LoadRecords, PageBegins

\* The environments that a load may choose are of its application.
LEMMA ChosenIsOfTheApplication ==
  ASSUME NEW a \in Apps, NEW d \in Chosen(a) PROVE d \in Deps /\ AppOf[d] = a
BY DepsAssumption DEF Chosen

\* A load ends, or goes on to ask for the state.
LEMMA LoadMoves ==
  ASSUME ContextTypeOK, Shows, setting' = setting, NEW n \in Loads, NEW l \in Load, LoadOf(l),
         load[n].at \in {"catalog", "state"},
         load' = [load EXCEPT ![n] = l], current' = current, app' = app, wanted' = wanted,
         params' \in Deps \cup {None}, ours' \in BOOLEAN,
         l.at # "unused" => l.app = load[n].app,
         n = current => l.at \in {"state", "shown"},
         \/ shown' = shown
         \/ n = current /\ l.at = "shown" /\ shown' = l.dep,
         ours' => /\ current # None
                  /\ IF n = current THEN params' = l.dep
                     ELSE /\ load[current].at \in {"state", "shown"}
                          /\ params' = load[current].dep
  PROVE  ContextTypeOK' /\ Shows'
<1>1. load' \in [Loads -> Load] /\ load'[n] = l
  BY DEF ContextTypeOK
<1>2. \A m \in Loads \ {n} : load'[m] = load[m]
  BY DEF ContextTypeOK
<1>3. shown' \in Deps \cup {None}
  BY DEF Load, ContextTypeOK
<1>4. ContextTypeOK'
  BY <1>1, <1>3 DEF ContextTypeOK
<1>5. \A m \in Loads : LoadOf(load'[m])
  BY <1>1, <1>2 DEF Shows
<1>6. shown # None => current # n
  BY DEF Shows
<1>7. current \in Loads \cup {None}
  BY DEF ContextTypeOK
<1>8. shown' # None
        => current' # None /\ load'[current'].at = "shown" /\ load'[current'].dep = shown'
  <2>1. CASE n = current
    BY <1>1, <1>6, <2>1, NoneAssumption
  <2>2. CASE n # current
    BY <1>2, <1>7, <2>2, NoneAssumption DEF Shows
  <2> QED
    BY <2>1, <2>2
<1>9. current' # None /\ HookIn(setting') => load'[current'].app = app'
  <2>1. CASE n = current
    BY <1>1, <2>1 DEF Shows
  <2>2. CASE n # current
    BY <1>2, <1>7, <2>2 DEF Shows
  <2> QED
    BY <2>1, <2>2
<1>10. ours' => current' # None /\ load'[current'].at \in {"state", "shown"}
                  /\ params' = load'[current'].dep
  <2>1. CASE n = current
    BY <1>1, <2>1
  <2>2. CASE n # current
    BY <1>2, <1>7, <2>2
  <2> QED
    BY <2>1, <2>2
<1> QED
  BY <1>4, <1>5, <1>8, <1>9, <1>10 DEF Shows

\* What a load that goes on does, for the page and for its handlers.
LEMMA ContextGoesOn ==
  ASSUME ContextTypeOK, Shows, setting' = setting, NEW n \in Loads,
         CatalogAnswers(n) \/ StateAnswers(n)
  PROVE  /\ ContextTypeOK' /\ Shows'
         /\ current' = current /\ app' = app
         /\ shown' # shown => n = current /\ shown = None
         /\ n = current => shown = None
         /\ n # current => ours' = FALSE \/ ours' = ours
<1>1. load[n] \in Load /\ LoadOf(load[n]) /\ n # None
  BY NoneAssumption DEF ContextTypeOK, Shows
<1>2. CASE CatalogAnswers(n)
  <2>1. load[n].at = "catalog" /\ load[n].app \in Apps
          /\ app' = app /\ wanted' = wanted /\ current' = current
    BY <1>1, <1>2 DEF CatalogAnswers, LoadOf
  <2>2. PICK d \in Chosen(load[n].app) :
          /\ params' = d
          /\ ours' = (n = current)
          /\ IF d \in Serverless
             THEN /\ load' = [load EXCEPT ![n] = [at |-> "state", app |-> load[n].app, dep |-> d]]
                  /\ UNCHANGED shown
             ELSE Ends(n, d)
    BY <1>2 DEF CatalogAnswers
  <2>3. d \in Deps /\ AppOf[d] = load[n].app
    BY <2>1, ChosenIsOfTheApplication
  <2>4. n = current => shown = None
    BY <2>1 DEF Shows
  <2> DEFINE l1 == [at |-> "state", app |-> load[n].app, dep |-> d]
             l2 == [at |-> "shown", app |-> load[n].app, dep |-> d]
  <2>5. l1 \in Load /\ LoadOf(l1) /\ l2 \in Load /\ LoadOf(l2)
    BY <2>1, <2>3 DEF Load, LoadOf
  <2>6. /\ l1.at = "state" /\ l1.app = load[n].app /\ l1.dep = d
        /\ l2.at = "shown" /\ l2.app = load[n].app /\ l2.dep = d
        /\ Unused.at = "unused"
    BY DEF Unused
  <2>7. \/ load' = [load EXCEPT ![n] = l1] /\ shown' = shown
        \/ load' = [load EXCEPT ![n] = l2] /\ n = current /\ shown' = d
        \/ load' = [load EXCEPT ![n] = Unused] /\ n # current /\ shown' = shown
    BY <2>2 DEF Ends
  <2>8. ours' => n = current
    BY <2>2
  <2>9. params' \in Deps \cup {None} /\ ours' \in BOOLEAN /\ params' = d
    BY <2>2, <2>3
  <2> HIDE DEF l1, l2
  <2>10. CASE load' = [load EXCEPT ![n] = l1] /\ shown' = shown
    <3>1. ContextTypeOK' /\ Shows'
      BY <1>1, <2>1, <2>5, <2>6, <2>8, <2>9, <2>10, LoadMoves
    <3> QED
      BY <2>1, <2>4, <2>8, <2>9, <2>10, <3>1
  <2>11. CASE load' = [load EXCEPT ![n] = l2] /\ n = current /\ shown' = d
    <3>1. ContextTypeOK' /\ Shows'
      BY <1>1, <2>1, <2>5, <2>6, <2>8, <2>9, <2>11, LoadMoves
    <3> QED
      BY <2>1, <2>4, <2>11, <3>1
  <2>12. CASE load' = [load EXCEPT ![n] = Unused] /\ n # current /\ shown' = shown
    <3>1. ContextTypeOK' /\ Shows'
      BY <1>1, <2>1, <2>6, <2>8, <2>9, <2>12, LoadMoves, LoadRecords
    <3> QED
      BY <2>1, <2>8, <2>9, <2>12, <3>1
  <2> QED
    BY <2>7, <2>10, <2>11, <2>12
<1>3. CASE StateAnswers(n)
  <2>1. load[n].at = "state" /\ Ends(n, load[n].dep) /\ app' = app /\ wanted' = wanted
          /\ current' = current /\ params' = params /\ ours' = ours
    BY <1>3 DEF StateAnswers
  <2>2. n = current => shown = None
    BY <2>1 DEF Shows
  <2> DEFINE l == [at |-> "shown", app |-> load[n].app, dep |-> load[n].dep]
  <2>3. l \in Load /\ LoadOf(l)
    BY <1>1, <2>1 DEF Load, LoadOf
  <2>4. l.at = "shown" /\ l.app = load[n].app /\ l.dep = load[n].dep /\ Unused.at = "unused"
    BY DEF Unused
  <2>5. \/ load' = [load EXCEPT ![n] = l] /\ n = current /\ shown' = load[n].dep
        \/ load' = [load EXCEPT ![n] = Unused] /\ n # current /\ shown' = shown
    BY <2>1 DEF Ends
  <2>6. params' \in Deps \cup {None} /\ ours' \in BOOLEAN
    BY <2>1 DEF ContextTypeOK
  <2>7. ours' => current # None /\ load[current].at \in {"state", "shown"}
                   /\ params' = load[current].dep
    BY <2>1 DEF Shows
  <2> HIDE DEF l
  <2>8. ContextTypeOK' /\ Shows'
    <3>1. CASE load' = [load EXCEPT ![n] = l] /\ n = current /\ shown' = load[n].dep
      BY <1>1, <2>1, <2>3, <2>4, <2>6, <2>7, <3>1, LoadMoves
    <3>2. CASE load' = [load EXCEPT ![n] = Unused] /\ n # current /\ shown' = shown
      BY <1>1, <2>1, <2>4, <2>6, <2>7, <3>2, LoadMoves, LoadRecords
    <3> QED
      BY <2>5, <3>1, <3>2
  <2> QED
    BY <2>1, <2>2, <2>5, <2>8
<1> QED
  BY <1>2, <1>3

\* A load fails.
LEMMA ContextStops ==
  ASSUME ContextTypeOK, Shows, setting' = setting, NEW n \in Loads, LoadFails(n)
  PROVE  /\ ContextTypeOK' /\ Shows'
         /\ current' = None \/ (current' = current /\ shown' = shown /\ ours' = ours)
<1>1. /\ load[n].at = "catalog" /\ load' = [load EXCEPT ![n] = Unused]
      /\ current' = IF n = current THEN None ELSE current
      /\ app' = app /\ wanted' = wanted /\ shown' = shown /\ params' = params /\ ours' = ours
  BY DEF LoadFails
<1>2. load' \in [Loads -> Load] /\ load'[n] = Unused /\ \A m \in Loads \ {n} : load'[m] = load[m]
  BY <1>1, LoadRecords DEF ContextTypeOK
<1>3. ContextTypeOK'
  BY <1>1, <1>2 DEF ContextTypeOK
<1>4. \A m \in Loads : LoadOf(load'[m])
  BY <1>2, LoadRecords DEF Shows
<1>5. n = current => shown = None /\ ~ours
  BY <1>1 DEF Shows
<1>6. current \in Loads \cup {None}
  BY DEF ContextTypeOK
<1>7. Shows'
  <2>1. CASE n = current
    BY <1>1, <1>4, <1>5, <2>1 DEF Shows
  <2>2. CASE n # current
    <3>1. current # None => load'[current] = load[current]
      BY <1>2, <1>6, <2>2
    <3>2. current' = current
      BY <1>1, <2>2
    <3> QED
      BY <1>1, <1>4, <3>1, <3>2 DEF Shows
  <2> QED
    BY <2>1, <2>2
<1> QED
  BY <1>1, <1>3, <1>7

-------------------------------------------------------------------------------
(* The steps of the portal. *)

\* What a handler does to its card leaves the cards as they may be.
LEMMA AffectWorks ==
  ASSUME setting \in Settings, PageTypeOK, NEW r, r.h \in Handlers, NEW fx, NEW hs,
         Affect(r, fx, hs)
  PROVE  PageTypeOK'
<1>1. Plan(r.h).card \in Cards
  BY SettledPlans, InTheSetting DEF IsPlan
<1>2. CASE r.mount = current
  <2>1. /\ card' = CardsAfter(r, fx, hs) /\ stuck' = StuckAfter(r, fx) /\ known' = known
        /\ taskShown' = IF "display" \in fx THEN r.got \in {"pending", "running"}
                        ELSE taskShown
    BY <1>2 DEF Affect
  <2>2. CardsAfter(r, fx, hs) \in [Cards -> CardStates]
    <3>1. \A c \in Cards : ShownBy(fx, card[c]) \in CardStates
      BY DEF ShownBy, CardStates, PageTypeOK
    <3>2. \A c \in Cards : card[c] \in CardStates /\ "busy" \in CardStates
      BY DEF CardStates, PageTypeOK
    <3> QED
      BY <3>1, <3>2 DEF CardsAfter
  <2>3. StuckAfter(r, fx) \subseteq Cards
    BY <1>1 DEF StuckAfter, PageTypeOK
  <2>4. taskShown' \in BOOLEAN
    <3>1. CASE "display" \in fx
      <4>1. taskShown' = (r.got \in {"pending", "running"})
        BY <2>1, <3>1
      <4> QED
        BY <4>1
    <3>2. CASE "display" \notin fx
      BY <2>1, <3>2 DEF PageTypeOK
    <3> QED
      BY <3>1, <3>2
  <2> QED
    BY <2>1, <2>2, <2>3, <2>4 DEF PageTypeOK
<1>3. CASE r.mount # current
  BY <1>3 DEF Affect, pageVars, PageTypeOK
<1> QED
  BY <1>2, <1>3

\* No card is shown.
LEMMA NoCardsWorks ==
  ASSUME PageTypeOK, NoCards, known' \in BOOLEAN PROVE PageTypeOK'
BY DEF PageTypeOK, NoCards, CardStates

\* The invariant in parts,
LEMMA InvParts ==
  ASSUME Inv
  PROVE  /\ setting \in Settings /\ ContextTypeOK /\ PageTypeOK /\ WorldTypeOK
         /\ thread \in [Slots -> Thread] /\ Shows /\ Threads
         /\ \A s \in Slots : Sound(thread[s])
BY TypeParts DEF Inv, ContextTypeOK, Threads, Sound

\* ... and from its parts.
LEMMA InvOfParts ==
  ASSUME ContextTypeOK', PageTypeOK', WorldTypeOK', thread' \in [Slots -> Thread], Shows',
         Threads'
  PROVE  Inv'
BY DEF Inv, TypeOK, PageTypeOK, WorldTypeOK

\* What a handler does between two awaits keeps the invariant.
LEMMA SegmentWorks ==
  ASSUME Inv, setting' = setting, NEW t \in Slots, NEW next, Sound(next), NEW r, Fit(r),
         NEW fx, NEW hs \in SUBSET Handlers, Segment(t, next, r, fx, hs), WorldTypeOK'
  PROVE  Inv'
<1>1. thread' \in [Slots -> Thread] /\ \A s \in Slots : Sound(thread'[s])
  BY GoesWorks DEF Segment
<1>2. setting \in Settings /\ ContextTypeOK /\ PageTypeOK /\ Shows
  BY InvParts
<1>3. CASE "home" \in fx
  <2>1. LeavePage /\ NoCards /\ known' = FALSE
    BY <1>3 DEF Segment
  <2>2. ContextTypeOK' /\ Shows' /\ current' = None
    BY <1>2, <2>1, PageIsLeft
  <2>3. Threads'
    BY <1>1, <2>2, SoundThreads
  <2> QED
    BY <1>1, <1>2, <2>1, <2>2, <2>3, NoCardsWorks, InvOfParts
<1>4. CASE "home" \notin fx
  <2>1. UNCHANGED contextVars /\ Affect(r, fx, hs)
    BY <1>4 DEF Segment
  <2>2. ContextTypeOK' /\ Shows' /\ current' = current /\ shown' = shown /\ ours' = ours
    BY <1>2, <2>1 DEF contextVars, ContextTypeOK, Shows
  <2>3. Threads'
    BY <1>1, <2>2, SoundThreads
  <2> QED
    BY <1>1, <1>2, <2>1, <2>2, <2>3, AffectWorks, InvOfParts DEF Fit
<1> QED
  BY <1>3, <1>4

\* A slot at work is fit to go on, with a step of its plan.
LEMMA AtWorkIsFit ==
  ASSUME Inv, NEW t \in Slots, thread[t].at # "free"
  PROVE  /\ Fit(thread[t])
         /\ StepOf(thread[t]) \in Step
         /\ thread[t].step \in Nat \ {0}
<1>1. Live(setting, thread[t]) /\ OfPage(thread[t], current, shown) /\ setting \in Settings
  BY InvParts DEF Threads
<1>2. Fit(thread[t])
  BY <1>1 DEF Live, OfPage, Fit
<1>3. thread[t].step \in 1 .. Len(PlanIn(setting, thread[t].h).steps)
  BY <1>1 DEF Live
<1>4. Len(PlanIn(setting, thread[t].h).steps) \in Nat
  BY <1>1, <1>2, SettledPlans DEF Fit, IsPlan
<1>5. thread[t].step \in Nat \ {0}
  BY <1>3, <1>4
<1>6. StepIn(setting, thread[t]) \in Step
  BY <1>1, <1>2, <1>3, StepIsStep DEF StepIn, Fit
<1> QED
  BY <1>2, <1>5, <1>6, InTheSetting

\* A load that starts is remembered by no handler.
LEMMA NewLoad ==
  ASSUME setting \in Settings, NEW n \in NextLoad
  PROVE  n \in Loads /\ \A s \in Slots : thread[s].mount # n
<1>1. n \in FreeLoads
  BY DEF NextLoad
<1> QED
  BY <1>1, SettingsAssumption DEF FreeLoads, Remembered

\* The slots once a page is left are sound, and none is of the page that takes its place.
LEMMA UnmountedWorks ==
  ASSUME Inv, setting' = setting, thread' = Unmounted,
         current' = None \/ \A s \in Slots : thread[s].mount # current' /\ current' # None
  PROVE  thread' \in [Slots -> Thread] /\ Threads'
<1>1. \A s \in Slots : thread'[s] \in {Off, thread[s]} /\ Sound(thread'[s])
  BY InvParts, OffIsSound DEF Unmounted
<1>2. thread' \in [Slots -> Thread]
  <2>1. \A s \in Slots : thread'[s] \in Thread
    BY <1>1 DEF Sound
  <2> QED
    BY <2>1 DEF Unmounted
<1>3. CASE current' = None
  BY <1>1, <1>2, <1>3, SoundThreads
<1>4. CASE \A s \in Slots : thread[s].mount # current' /\ current' # None
  <2> SUFFICES ASSUME NEW s \in Slots
               PROVE  /\ Live(setting', thread'[s])
                      /\ OfPage(thread'[s], current', shown')
                      /\ OwnOf(setting', thread'[s], current', ours')
    BY <1>2 DEF Threads
  <2>1. thread'[s].mount # current'
    BY <1>1, <1>4, OffIsFree
  <2>2. Live(setting, thread'[s])
    BY <1>1 DEF Sound
  <2> QED
    BY <2>1, <2>2 DEF OfPage, OwnOf
<1> QED
  BY <1>2, <1>3, <1>4

\* A page is opened, left or loads again.
LEMMA PagesKeepInv ==
  ASSUME Inv,
         \/ \E n \in NextLoad, a \in Apps : Open(n, a)
         \/ \E n \in NextLoad, d \in Deps : Switch(n, d)
         \/ \E n \in NextLoad : Reload(n)
         \/ Leave
  PROVE  Inv'
<1>1. setting \in Settings /\ ContextTypeOK /\ Shows /\ PageTypeOK /\ WorldTypeOK
  BY InvParts
<1>2. \A n \in NextLoad : n \in Loads /\ \A s \in Slots : thread[s].mount # n
  BY <1>1, NewLoad
<1>3. \A n \in NextLoad : n # None
  BY <1>2, NoneAssumption
<1>4. ASSUME NEW n \in NextLoad, NEW a \in Apps, Open(n, a) PROVE Inv'
  <2>1. /\ OpenPage(n, a) \/ OpenPlainPage(n, a)
        /\ setting' = setting /\ thread' = Unmounted /\ known' = (a \in attached)
    BY <1>4 DEF Open
  <2>2. ContextTypeOK' /\ Shows' /\ current' = n
    BY <1>1, <1>2, <2>1, PageOpens
  <2>3. PageTypeOK'
    <3>1. known' \in BOOLEAN
      BY <2>1
    <3>2. CASE NoCards
      BY <1>1, <3>1, <3>2, NoCardsWorks
    <3>3. CASE /\ card' = [c \in Cards |-> IF c \in PageCards THEN "idle" ELSE "off"]
               /\ taskShown' = FALSE
               /\ stuck' = {}
      BY <3>1, <3>3 DEF PageTypeOK, CardStates
    <3> QED
      BY <1>4, <3>2, <3>3 DEF Open
  <2>4. WorldTypeOK'
    BY <1>1, <1>4 DEF Open, WorldTypeOK
  <2>5. thread' \in [Slots -> Thread] /\ Threads'
    BY <1>2, <1>3, <2>1, <2>2, UnmountedWorks
  <2> QED
    BY <2>2, <2>3, <2>4, <2>5, InvOfParts
<1>5. CASE Leave
  <2>1. LeavePage /\ NoCards /\ known' = FALSE /\ thread' = Unmounted /\ setting' = setting
    BY <1>5 DEF Leave
  <2>2. ContextTypeOK' /\ Shows' /\ current' = None
    BY <1>1, <2>1, PageIsLeft
  <2>3. PageTypeOK'
    BY <1>1, <2>1, NoCardsWorks
  <2>4. WorldTypeOK'
    BY <1>1, <1>5 DEF Leave, worldVars, WorldTypeOK
  <2>5. thread' \in [Slots -> Thread] /\ Threads'
    BY <2>1, <2>2, UnmountedWorks
  <2> QED
    BY <2>2, <2>3, <2>4, <2>5, InvOfParts
<1>6. ASSUME NEW n \in NextLoad, (\E d \in Deps : Switch(n, d)) \/ Reload(n) PROVE Inv'
  <2>1. /\ (\E d \in Deps : Select(n, d)) \/ Refresh(n)
        /\ NoCards /\ known' = known /\ thread' = Unmounted /\ setting' = setting
        /\ UNCHANGED worldVars
    BY <1>6 DEF Switch, Reload
  <2>2. ContextTypeOK' /\ Shows' /\ current' = n
    BY <1>1, <1>2, <2>1, PageLoadsAgain
  <2>3. PageTypeOK'
    <3>1. known' \in BOOLEAN
      BY <1>1, <2>1 DEF PageTypeOK
    <3> QED
      BY <1>1, <2>1, <3>1, NoCardsWorks
  <2>4. WorldTypeOK'
    BY <1>1, <2>1 DEF worldVars, WorldTypeOK
  <2>5. thread' \in [Slots -> Thread] /\ Threads'
    BY <1>2, <1>3, <2>1, <2>2, UnmountedWorks
  <2> QED
    BY <2>2, <2>3, <2>4, <2>5, InvOfParts
<1> QED
  BY <1>4, <1>5, <1>6

\* The handlers that the cards call when they are shown know the page that is shown.
LEMMA MountWorks ==
  ASSUME Inv, ContextTypeOK', Shows', setting' = setting, app' = app, current' = current,
         shown = None, shown' # None, NEW hs \in SUBSET Handlers,
         Mount(current, shown', hs)
  PROVE  thread' \in [Slots -> Thread] /\ Threads'
<1>1. setting \in Settings /\ shown' \in Deps /\ current \in Loads
        /\ params' \in Deps \cup {None} /\ current # None
  BY InvParts DEF ContextTypeOK, Shows
<1>2. AppOf[shown'] \in Apps /\ load'[current].app = AppOf[shown'] /\ load'[current].dep = shown'
        /\ (HookIn(setting) => app = AppOf[shown']) /\ (ours' => params' = shown')
  <2>1. load'[current].at = "shown" /\ load'[current].dep = shown'
    BY <1>1 DEF Shows
  <2>2. LoadOf(load'[current])
    BY <1>1 DEF Shows
  <2>3. load'[current].app = AppOf[shown']
    BY <2>1, <2>2 DEF LoadOf
  <2> QED
    BY <1>1, <2>1, <2>3, DepsAssumption DEF Shows
<1> DEFINE ms(s) == {h \in hs : Plan(h).card = s}
           c(s) == Called(CHOOSE h \in hs : Plan(h).card = s, current, shown', shown')
<1>3. thread' = [s \in Slots |-> IF \E h \in hs : Plan(h).card = s THEN At(c(s), 1, params')
                                 ELSE thread[s]]
  BY DEF Mount
<1>4. ASSUME NEW s \in Slots
      PROVE  /\ thread'[s] \in Thread /\ Live(setting, thread'[s])
             /\ OfPage(thread'[s], current, shown')
             /\ OwnOf(setting, thread'[s], current, ours')
  <2>1. CASE \E h \in hs : Plan(h).card = s
    <3> DEFINE r == c(s)
               a == At(r, 1, params')
    <3>1. r.h \in Handlers /\ r.mount = current /\ r.home = shown' /\ r.dep = shown'
      <4> DEFINE h == CHOOSE x \in hs : Plan(x).card = s
      <4>1. h \in Handlers
        BY <2>1
      <4> QED
        BY <4>1, CalledIs
    <3>2. thread'[s] = a
      BY <1>3, <2>1
    <3> HIDE DEF r
    <3>3. /\ a \in Thread /\ Live(setting, a)
          /\ a.at # "free" => /\ a.mount = current /\ a.home = shown' /\ a.dep = shown'
                              /\ StepIn(setting, a) \in Step
          /\ a.at = "sent" => a.to = Named(StepIn(setting, a), r, params')
      BY <1>1, <3>1, AtWorks
    <3> HIDE DEF a
    <3>4. OfPage(a, current, shown')
      BY <1>1, <3>3 DEF OfPage
    <3>5. OwnOf(setting, a, current, ours')
      <4> SUFFICES ASSUME a.at = "sent", HookIn(setting) => ours'
                   PROVE  \/ a.to = Meant(StepIn(setting, a), a)
                          \/ ~HookIn(setting) /\ ~StepIn(setting, a).own
        BY DEF OwnOf
      <4> DEFINE st == StepIn(setting, a)
      <4>1. st \in Step /\ a.to = Named(st, r, params')
        BY <3>3
      <4>2. HookIn(setting) => app = AppOf[r.home] /\ params' = r.home
        BY <1>2, <3>1
      <4> HIDE DEF st
      <4>3. Named(st, r, params') = Meant(st, r) \/ (~HookIn(setting) /\ ~st.own)
        BY <4>1, <4>2, NamedIsMeant
      <4>4. Meant(st, r) = Meant(st, a)
        BY <3>1, <3>3 DEF Meant
      <4> QED
        BY <4>1, <4>3, <4>4 DEF st
    <3> QED
      BY <3>2, <3>3, <3>4, <3>5
  <2>2. CASE ~\E h \in hs : Plan(h).card = s
    <3>1. thread'[s] = thread[s]
      BY <1>3, <2>2
    <3>2. Sound(thread[s])
      BY InvParts
    <3>3. thread[s].at # "free" => thread[s].mount # current
      BY <3>2 DEF Sound, OfPage
    <3> HIDE DEF c
    <3> QED
      BY <3>1, <3>2, <3>3 DEF Sound, OfPage, OwnOf
  <2> QED
    BY <2>1, <2>2
<1>5. thread' \in [Slots -> Thread]
  <2>1. \A s \in Slots : thread'[s] \in Thread
    BY <1>4
  <2> HIDE DEF c
  <2> QED
    BY <1>3, <2>1
<1> HIDE DEF c
<1> QED
  BY <1>4, <1>5 DEF Threads

\* A load goes on, fails, or ends with the page shown and its cards' handlers called.
LEMMA LoadsKeepInv ==
  ASSUME Inv, NEW n \in Loads, LoadGoesOn(n) \/ LoadStops(n)
  PROVE  Inv'
<1>1. /\ setting \in Settings /\ ContextTypeOK /\ Shows /\ PageTypeOK /\ WorldTypeOK /\ Threads
      /\ thread \in [Slots -> Thread] /\ \A s \in Slots : Sound(thread[s])
  BY InvParts
<1>2. setting' = setting /\ UNCHANGED worldVars
  BY DEF LoadGoesOn, LoadStops
<1>3. WorldTypeOK'
  BY <1>1, <1>2 DEF worldVars, WorldTypeOK
<1>4. CASE LoadStops(n)
  <2>1. LoadFails(n) /\ UNCHANGED <<pageVars, thread>>
    BY <1>4 DEF LoadStops
  <2>2. ContextTypeOK' /\ Shows'
        /\ (current' = None \/ (current' = current /\ shown' = shown /\ ours' = ours))
    BY <1>1, <1>2, <2>1, ContextStops
  <2>3. PageTypeOK' /\ thread' \in [Slots -> Thread] /\ \A s \in Slots : Sound(thread'[s])
    BY <1>1, <2>1 DEF pageVars, PageTypeOK
  <2>4. Threads'
    BY <1>2, <2>2, <2>3, SoundThreads
  <2> QED
    BY <1>3, <2>2, <2>3, <2>4, InvOfParts
<1>5. CASE LoadGoesOn(n)
  <2>1. CatalogAnswers(n) \/ StateAnswers(n)
    BY <1>5 DEF LoadGoesOn
  <2>2. /\ ContextTypeOK' /\ Shows'
        /\ current' = current /\ app' = app
        /\ shown' # shown => n = current /\ shown = None
        /\ n = current => shown = None
        /\ n # current => ours' = FALSE \/ ours' = ours
    BY <1>1, <1>2, <2>1, ContextGoesOn
  <2>3. CASE shown' = shown
    <3>1. UNCHANGED <<pageVars, thread>>
      BY <1>5, <2>3 DEF LoadGoesOn
    <3>2. PageTypeOK' /\ thread' \in [Slots -> Thread] /\ thread' = thread
      BY <1>1, <3>1 DEF pageVars, PageTypeOK
    <3>3. Threads'
      <4> SUFFICES ASSUME NEW s \in Slots
                   PROVE  /\ Live(setting, thread[s])
                          /\ OfPage(thread[s], current, shown)
                          /\ OwnOf(setting, thread[s], current, ours')
        BY <1>2, <2>2, <2>3, <3>2 DEF Threads
      <4>1. Sound(thread[s])
        BY <1>1
      <4>2. OwnOf(setting, thread[s], current, ours')
        <5>1. CASE n = current
          BY <2>2, <4>1, <5>1 DEF Sound, OfPage, OwnOf
        <5>2. CASE n # current
          BY <2>2, <4>1, <5>2 DEF Sound, OwnOf
        <5> QED
          BY <5>1, <5>2
      <4> QED
        BY <4>1, <4>2 DEF Sound
    <3> QED
      BY <1>3, <2>2, <3>2, <3>3, InvOfParts
  <2>4. CASE shown' # shown
    <3>1. PICK infra \in {"infraMount", "infraMissing"} :
            Mount(current, shown', MountHandlers(shown', infra))
      BY <1>5, <2>2, <2>4 DEF LoadGoesOn
    <3> DEFINE hs == MountHandlers(shown', infra)
    <3>2. hs \in SUBSET Handlers
      BY HandlerNames DEF MountHandlers
    <3> HIDE DEF hs
    <3>3. thread' \in [Slots -> Thread] /\ Threads'
      BY <1>2, <2>2, <2>4, <3>1, <3>2, MountWorks DEF hs
    <3>4. PageTypeOK'
      BY <1>1, <3>1 DEF Mount, PageTypeOK, CardStates
    <3> QED
      BY <1>3, <2>2, <3>3, <3>4, InvOfParts
  <2> QED
    BY <2>3, <2>4
<1> QED
  BY <1>4, <1>5

\* A click.
LEMMA ClickKeepsInv ==
  ASSUME Inv, NEW t \in setting.clicks, NEW h \in Handlers, Click(t, h)
  PROVE  Inv'
<1>1. setting \in Settings /\ WorldTypeOK /\ ContextTypeOK /\ Shows
  BY InvParts
<1>2. t \in Slots
  BY <1>1, KindsAssumption DEF Slots
<1> DEFINE r == Called(h, current, shown, shown)
<1>3. shown # None
  BY DEF Click, Offered
<1>4. Fit(r)
  <2>1. current \in Loads /\ shown \in Deps
    BY <1>1, <1>3, ShownIsOfThePage
  <2>2. r.h = h /\ r.mount = current /\ r.home = shown /\ r.dep = shown
    BY CalledIs
  <2> HIDE DEF r
  <2> QED
    BY <1>3, <2>1, <2>2 DEF Fit
<1>5. Segment(t, At(r, 1, params), r, Plan(h).first, Plan(h).forks)
        /\ setting' = setting /\ UNCHANGED worldVars
  BY DEF Click
<1>6. WorldTypeOK'
  BY <1>1, <1>5 DEF worldVars, WorldTypeOK
<1>7. Plan(h).forks \in SUBSET Handlers
  BY <1>1, SettledPlans, InTheSetting DEF IsPlan
<1> HIDE DEF r
<1>8. Sound(At(r, 1, params))
  BY <1>4, NextIsSound
<1> QED
  BY <1>2, <1>4, <1>5, <1>6, <1>7, <1>8, SegmentWorks

\* What a request that is served changes outside the portal.
LEMMA WorldIsServed ==
  ASSUME WorldTypeOK, NEW r, r.home \in Deps, r.dep \in Deps,
         UpdateService(r), DeleteStack(r), DeleteWorkload(r), DeleteEntity(r), UpdateAttached(r),
         task' = task, refused' = refused
  PROVE  WorldTypeOK'
<1>1. desired' \in [Deps -> {0, 1}]
  BY DEF UpdateService, WorldTypeOK
<1>2. stack' \in [Deps -> {"there", "going"}]
  BY DEF DeleteStack, WorldTypeOK
<1>6. workload' \in [Deps -> {"none", "there", "going"}]
  BY DEF DeleteWorkload, WorldTypeOK
<1>3. repo' \subseteq Apps /\ listed' \subseteq Apps
  BY DEF DeleteEntity, WorldTypeOK
<1>4. AppOf[r.home] \in Apps
  BY DepsAssumption
<1>5. attached' \subseteq Apps /\ unseen' \subseteq Apps
  BY <1>4 DEF UpdateAttached, WorldTypeOK
<1> QED
  BY <1>1, <1>2, <1>3, <1>5, <1>6 DEF WorldTypeOK

\* A request is served.
LEMMA ServeKeepsInv ==
  ASSUME Inv, NEW t \in Slots, Serve(t)
  PROVE  Inv'
<1>1. /\ setting \in Settings /\ ContextTypeOK /\ Shows /\ PageTypeOK /\ WorldTypeOK /\ Threads
      /\ thread \in [Slots -> Thread] /\ \A s \in Slots : Sound(thread[s])
  BY InvParts
<1>2. thread[t].at = "sent" /\ thread[t] \in Thread
  BY <1>1 DEF Serve
<1>3. Fit(thread[t])
  BY <1>2, AtWorkIsFit
<1> DEFINE got == IF StepOf(thread[t]).call = "getTaskDetails" THEN task[thread[t].home] ELSE "ok"
           a == [[[thread[t] EXCEPT !.at = "answered"] EXCEPT !.to = None] EXCEPT !.got = got]
<1>4. thread' = [thread EXCEPT ![t] = a]
  BY DEF Serve
<1>5. got \in {"ok", "none", "pending", "running"}
  BY <1>1, <1>3 DEF Fit, WorldTypeOK
<1> HIDE DEF got
<1>6. a \in Thread /\ a.at = "answered" /\ a.h = thread[t].h /\ a.step = thread[t].step
        /\ a.mount = thread[t].mount /\ a.home = thread[t].home /\ a.dep = thread[t].dep
  BY <1>2, <1>5 DEF Thread
<1> HIDE DEF a
<1>7. Sound(a)
  <2>1. Sound(thread[t])
    BY <1>1
  <2> QED
    BY <1>2, <1>6, <2>1 DEF Sound, Live, OfPage, OwnOf
<1>8. thread' \in [Slots -> Thread] /\ \A s \in Slots : Sound(thread'[s])
  BY <1>1, <1>4, <1>6, <1>7
<1>9. setting' = setting /\ UNCHANGED contextVars /\ UNCHANGED pageVars
        /\ task' = task /\ refused' = refused
  BY DEF Serve
<1>10. Threads' /\ ContextTypeOK' /\ Shows' /\ PageTypeOK'
  <2>1. Threads'
    BY <1>8, <1>9, SoundThreads DEF contextVars
  <2>2. ContextTypeOK' /\ Shows'
    BY <1>1, <1>9 DEF contextVars, ContextTypeOK, Shows
  <2>3. PageTypeOK'
    BY <1>1, <1>9 DEF pageVars, PageTypeOK
  <2> QED
    BY <2>1, <2>2, <2>3
<1>11. WorldTypeOK'
  <2>1. UpdateService(thread[t]) /\ DeleteStack(thread[t]) /\ DeleteWorkload(thread[t])
          /\ DeleteEntity(thread[t]) /\ UpdateAttached(thread[t])
    BY DEF Serve
  <2> QED
    BY <1>1, <1>3, <1>9, <2>1, WorldIsServed DEF Fit
<1> QED
  BY <1>8, <1>10, <1>11, InvOfParts

\* A pause is over.
LEMMA WakeKeepsInv ==
  ASSUME Inv, NEW t \in Slots, Wake(t)
  PROVE  Inv'
<1>1. /\ setting \in Settings /\ ContextTypeOK /\ Shows /\ PageTypeOK /\ WorldTypeOK /\ Threads
      /\ thread \in [Slots -> Thread] /\ \A s \in Slots : Sound(thread[s])
  BY InvParts
<1> DEFINE r == thread[t]
           st == StepOf(r)
<1>2. r.at = "asleep" /\ setting' = setting /\ UNCHANGED worldVars
  BY DEF Wake
<1>3. Fit(r) /\ st \in Step /\ r.step \in Nat \ {0} /\ r \in Thread
  BY <1>1, <1>2, AtWorkIsFit
<1>4. WorldTypeOK'
  BY <1>1, <1>2 DEF worldVars, WorldTypeOK
<1>5. CASE st.call = "sleep"
  <2>1. Segment(t, At(r, r.step + 1, params), r, st.then, st.forks)
    BY <1>5 DEF Wake
  <2> HIDE DEF r, st
  <2>2. r.step + 1 \in Nat \ {0} /\ st.forks \in SUBSET Handlers
    <3>1. r.step + 1 \in Nat \ {0}
      BY <1>3
    <3> QED
      BY <1>3, <3>1 DEF Step
  <2>3. Sound(At(r, r.step + 1, params))
    BY <1>3, <2>2, NextIsSound
  <2> QED
    BY <1>2, <1>3, <1>4, <2>1, <2>2, <2>3, SegmentWorks
<1>6. CASE st.call # "sleep"
  <2> DEFINE to == Named(st, r, params)
             a == [[r EXCEPT !.at = "sent"] EXCEPT !.to = to]
  <2>1. thread' = [thread EXCEPT ![t] = a] /\ UNCHANGED <<contextVars, pageVars>>
    BY <1>6 DEF Wake
  <2>2. Sound(r) /\ params \in Deps \cup {None}
    BY <1>1 DEF ContextTypeOK
  <2>3. to \in Deps \cup {None}
    <3> HIDE DEF r, st
    <3> QED
      BY <1>3, <2>2, NamedType DEF Fit
  <2> HIDE DEF to
  <2>4. a \in Thread /\ a.at = "sent" /\ a.to = to /\ a.h = r.h /\ a.step = r.step
          /\ a.mount = r.mount /\ a.home = r.home /\ a.dep = r.dep
    BY <1>3, <2>3 DEF Thread
  <2>5. StepIn(setting, a) = st
    <3> HIDE DEF a
    <3> QED
      BY <2>4, InTheSetting DEF StepIn
  <2> HIDE DEF a
  <2>6. Live(setting, a) /\ OfPage(a, current, shown)
    BY <1>2, <2>2, <2>4 DEF Sound, Live, OfPage
  <2>7. OwnOf(setting, a, current, ours)
    <3> SUFFICES ASSUME a.mount = current, HookIn(setting) => ours
                 PROVE  a.to = Meant(st, a) \/ (~HookIn(setting) /\ ~st.own)
      BY <2>5 DEF OwnOf
    <3> HIDE DEF st, r
    <3>1. HookIn(setting) => app = AppOf[r.home] /\ params = r.home
      BY <1>3, <2>4, PageParams
    <3>2. to = Meant(st, r) \/ (~HookIn(setting) /\ ~st.own)
      BY <1>3, <3>1, NamedIsMeant DEF to
    <3>3. Meant(st, r) = Meant(st, a)
      BY <2>4 DEF Meant
    <3> QED
      BY <2>4, <3>2, <3>3
  <2>8. thread' \in [Slots -> Thread] /\ \A s \in Slots : Sound(thread'[s])
    <3>1. Sound(a)
      BY <2>4, <2>6, <2>7 DEF Sound
    <3> QED
      BY <1>1, <2>1, <2>4, <3>1
  <2>9. Threads'
    BY <1>2, <2>1, <2>8, SoundThreads DEF contextVars
  <2>10. ContextTypeOK' /\ Shows'
    BY <1>1, <1>2, <2>1 DEF contextVars, ContextTypeOK, Shows
  <2>11. PageTypeOK'
    BY <1>1, <2>1 DEF pageVars, PageTypeOK
  <2> QED
    BY <1>4, <2>8, <2>9, <2>10, <2>11, InvOfParts
<1> QED
  BY <1>5, <1>6

\* A request fails.
LEMMA FailKeepsInv ==
  ASSUME Inv, NEW t \in Slots, Fail(t)
  PROVE  Inv'
<1>1. setting \in Settings /\ WorldTypeOK /\ thread[t] \in Thread
  BY InvParts
<1> DEFINE r == thread[t]
           fx == IF StepOf(r).caught THEN StepOf(r).rescue
                 ELSE IF card[Plan(r.h).card] = "busy" THEN {"stuck"} ELSE {}
<1>2. /\ r.at # "free" /\ Segment(t, Off, r, fx, {}) /\ setting' = setting
      /\ refused' = refused \cup Undeleted(r)
      /\ UNCHANGED <<desired, task, stack, workload, repo, listed, attached, unseen>>
  BY DEF Fail
<1>3. Fit(r)
  BY <1>2, AtWorkIsFit
<1>4. Undeleted(r) \subseteq Deps \cup Apps
  BY <1>3, DepsAssumption DEF Undeleted, Fit
<1>5. WorldTypeOK'
  BY <1>1, <1>2, <1>4 DEF WorldTypeOK
<1> HIDE DEF fx, r
<1> QED
  BY <1>2, <1>3, <1>5, OffIsSound, SegmentWorks

\* An answer is taken.
LEMMA ContinueKeepsInv ==
  ASSUME Inv, NEW t \in Slots, Continue(t)
  PROVE  Inv'
<1>1. setting \in Settings /\ WorldTypeOK
  BY InvParts
<1> DEFINE r == thread[t]
           st == StepOf(r)
<1>2. setting' = setting /\ UNCHANGED worldVars /\ r.at # "free"
  BY DEF Continue, PollAgain, GoOn, Answers
<1>3. Fit(r) /\ st \in Step /\ r.step \in Nat \ {0}
  BY <1>2, AtWorkIsFit
<1>4. WorldTypeOK'
  BY <1>1, <1>2 DEF worldVars, WorldTypeOK
<1>5. CASE PollAgain(t)
  <2>1. Segment(t, At(r, r.step, params), r, st.each, {})
    BY <1>5 DEF PollAgain
  <2> HIDE DEF r, st
  <2>2. Sound(At(r, r.step, params))
    BY <1>3, NextIsSound
  <2> QED
    BY <1>2, <1>3, <1>4, <2>1, <2>2, SegmentWorks
<1>6. CASE GoOn(t)
  <2>1. PICK got \in Answers(r) :
          Segment(t, At(r, r.step + 1 + (IF got = st.leapOn THEN st.leap ELSE 0), params),
                  r, st.then, st.forks)
    BY <1>6 DEF GoOn
  <2> DEFINE k == r.step + 1 + (IF got = st.leapOn THEN st.leap ELSE 0)
  <2>2. st.leap \in Nat /\ st.forks \in SUBSET Handlers
    BY <1>3 DEF Step
  <2>3. k \in Nat \ {0}
    <3> HIDE DEF r, st
    <3> QED
      BY <1>3, <2>2
  <2> HIDE DEF r, st, k
  <2>4. Sound(At(r, k, params))
    BY <1>3, <2>3, NextIsSound
  <2> QED
    BY <1>2, <1>3, <1>4, <2>1, <2>2, <2>4, SegmentWorks DEF k
<1> QED
  BY <1>5, <1>6 DEF Continue

\* What happens outside the portal disturbs no page and no handler.
LEMMA OutsideKeepsInv ==
  ASSUME Inv,
         \/ \E d \in Deps : Converge(d)
         \/ \E a \in Apps : AttachElsewhere(a)
         \/ UNCHANGED vars
  PROVE  Inv'
<1>1. /\ setting \in Settings /\ ContextTypeOK /\ Shows /\ PageTypeOK /\ WorldTypeOK /\ Threads
      /\ thread \in [Slots -> Thread] /\ \A s \in Slots : Sound(thread[s])
  BY InvParts
<1>2. setting' = setting /\ UNCHANGED contextVars /\ UNCHANGED pageVars /\ thread' = thread
  BY DEF Converge, AttachElsewhere, vars
<1>3. ContextTypeOK' /\ Shows'
  BY <1>1, <1>2 DEF contextVars, ContextTypeOK, Shows
<1>4. PageTypeOK'
  BY <1>1, <1>2 DEF pageVars, PageTypeOK
<1>5. thread' \in [Slots -> Thread] /\ Threads'
  BY <1>1, <1>2, SoundThreads DEF contextVars
<1>6. WorldTypeOK'
  <2>1. CASE \E d \in Deps : Converge(d)
    BY <1>1, <2>1 DEF Converge, WorldTypeOK
  <2>2. CASE \E a \in Apps : AttachElsewhere(a)
    BY <1>1, <2>2 DEF AttachElsewhere, WorldTypeOK
  <2>3. CASE UNCHANGED vars
    BY <1>1, <2>3 DEF vars, worldVars, WorldTypeOK
  <2> QED
    BY <2>1, <2>2, <2>3
<1> QED
  BY <1>3, <1>4, <1>5, <1>6, InvOfParts

-------------------------------------------------------------------------------
(* The theorems. *)

\* The invariant holds initially,
LEMMA InitInv == Init => Inv
<1> SUFFICES ASSUME Init PROVE Inv
  OBVIOUS
<1>1. /\ setting \in Settings /\ app = None /\ wanted = None
      /\ load = [n \in Loads |-> Unused] /\ current = None /\ shown = None /\ params = None
      /\ ours = FALSE /\ thread = [s \in Slots |-> Off]
  BY DEF Init, ContextInit
<1>2. ContextTypeOK
  BY <1>1, LoadRecords DEF ContextTypeOK
<1>3. setting.pages \subseteq Apps
  BY <1>1, SettingsAssumption
<1>4. attached \subseteq Apps
  BY <1>3 DEF Init
<1>5. TypeOK
  <2>1. thread \in [Slots -> Thread]
    BY <1>1, OffIsFree
  <2>2. PageTypeOK
    BY DEF Init, PageTypeOK, CardStates
  <2>3. WorldTypeOK
    BY <1>3, <1>4 DEF Init, WorldTypeOK
  <2> QED
    BY <1>2, <2>1, <2>2, <2>3, TypeParts
<1>6. Shows
  BY <1>1, LoadRecords DEF Shows
<1>7. Threads
  <2> SUFFICES ASSUME NEW s \in Slots
               PROVE  /\ Live(setting, thread[s])
                      /\ OfPage(thread[s], current, shown)
                      /\ OwnOf(setting, thread[s], current, ours)
    BY DEF Threads
  <2>1. thread[s] = Off
    BY <1>1
  <2> QED
    BY <2>1, OffIsSound DEF Sound
<1> QED
  BY <1>5, <1>6, <1>7 DEF Inv

\* ... and every step keeps it.
LEMMA StepInv == Inv /\ [Next]_vars => Inv'
<1> SUFFICES ASSUME Inv, [Next]_vars PROVE Inv'
  OBVIOUS
<1>1. CASE \/ \E n \in NextLoad, a \in Apps : Open(n, a)
           \/ \E n \in NextLoad, d \in Deps : Switch(n, d)
           \/ \E n \in NextLoad : Reload(n)
           \/ Leave
  BY <1>1, PagesKeepInv
<1>2. CASE \E n \in Loads : LoadGoesOn(n) \/ LoadStops(n)
  BY <1>2, LoadsKeepInv
<1>3. CASE \E t \in setting.clicks, h \in Handlers : Click(t, h)
  BY <1>3, ClickKeepsInv
<1>4. CASE \E t \in Slots : Serve(t) \/ Fail(t) \/ Wake(t) \/ Continue(t)
  BY <1>4, ServeKeepsInv, FailKeepsInv, WakeKeepsInv, ContinueKeepsInv
<1>5. CASE \/ \E d \in Deps : Converge(d)
           \/ \E a \in Apps : AttachElsewhere(a)
           \/ UNCHANGED vars
  BY <1>5, OutsideKeepsInv
<1> QED
  BY <1>1, <1>2, <1>3, <1>4, <1>5 DEF Next

\* The state of the pages, of their handlers and of what they act on is always well formed.
THEOREM TypeCorrect == Spec => []TypeOK
<1>1. Inv => TypeOK
  BY DEF Inv
<1> QED
  BY <1>1, InitInv, StepInv, PTL DEF Spec

\* A request of a card of the page names the deployment that it is meant for, whatever was
\* loaded, left, switched to and clicked before: useAwsApp and getAppliedBackendParams.
THEOREM CallsNameTheirOwn == Spec => []CallsAreOwn
<1>1. Inv => CallsAreOwn
  BY InTheSetting DEF Inv, Threads, OwnOf, CallsAreOwn
<1> QED
  BY <1>1, InitInv, StepInv, PTL DEF Spec
===============================================================================
