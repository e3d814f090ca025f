----------------------------- MODULE RemovalProofs -----------------------------
(***************************************************************************)
(* What leaves the catalog takes its repository and the infrastructure of  *)
(* its deployments along, proved of the pages of the portal for any number *)
(* of applications, deployments and clicks, of whatever kind.  Of the      *)
(* Kubernetes objects of an application only those of one environment are  *)
(* sure to have been asked to go, and no more is proved.                   *)
(*                                                                         *)
(* The handlers that delete start others, which nothing awaits.  The       *)
(* invariant says which handler may be in which slot, that those of the    *)
(* pages that delete are all of one application, and what must be through, *)
(* under way or refused when one of them is at its step: the last deletes  *)
(* the entity from the catalog.                                            *)
(*                                                                         *)
(* First the steps of the handlers, then what has been tried and what it   *)
(* has to be, the segments, the actions, the Kubernetes objects with an    *)
(* invariant of their own, and the theorem.                                *)
(***************************************************************************)
EXTENDS PortalProofs

-------------------------------------------------------------------------------
(* What the handlers start, and which of them delete. *)

\* A step that starts no handler and takes nothing out of the catalog.
Minor(s) == s \in Step /\ s.forks = {} /\ s.call # "removeEntityByUid"

MinorPlan(p) == \A k \in 1 .. Len(p.steps) : Minor(p.steps[k])

\* How the minor steps are made.
LEMMA MinorSteps ==
  /\ \A m \in (Methods \cup CatalogMethods) \ {"removeEntityByUid"} :
       Minor(Await(m)) /\ Await(m).call = m
  /\ \A s : Minor(s) => \A fx \in SUBSET Effects :
       Minor(Then(s, fx)) /\ Minor(Catch(s, fx)) /\ Minor(Each(s, fx))
  /\ \A s : Minor(s) => \A got \in {"none", "running"}, n \in Nat : Minor(Leap(s, got, n))
  /\ \A s : Minor(s) /\ s.call \in Overridable => Minor(Own(s)) /\ Own(s).call = s.call
  /\ \A m \in Methods \ {"removeEntityByUid"}, answers \in SUBSET {"none", "pending", "running"} :
       Minor(Poll(m, answers))
<1>1. \A m \in (Methods \cup CatalogMethods) \ {"removeEntityByUid"} :
        Minor(Await(m)) /\ Await(m).call = m
  <2> SUFFICES ASSUME NEW m \in (Methods \cup CatalogMethods) \ {"removeEntityByUid"}
               PROVE  Minor(Await(m)) /\ Await(m).call = m
    OBVIOUS
  <2>1. Await(m) \in Step /\ Await(m).call = m /\ Await(m).forks = {}
    BY AwaitStep
  <2> QED
    BY <2>1 DEF Minor
<1>2. ASSUME NEW s, Minor(s), NEW fx \in SUBSET Effects
      PROVE  Minor(Then(s, fx)) /\ Minor(Catch(s, fx)) /\ Minor(Each(s, fx))
  BY <1>2, ThenStep, CatchStep, EachStep DEF Minor
<1>3. ASSUME NEW s, Minor(s), NEW got \in {"none", "running"}, NEW n \in Nat
      PROVE  Minor(Leap(s, got, n))
  <2>1. s \in Step /\ s.forks = {} /\ s.call # "removeEntityByUid"
    BY <1>3 DEF Minor
  <2>2. /\ Leap(s, got, n) \in Step /\ Leap(s, got, n).call = s.call
        /\ Leap(s, got, n).forks = s.forks
    BY <2>1 DEF Leap, Step
  <2> QED
    BY <2>1, <2>2 DEF Minor
<1>4. ASSUME NEW s, Minor(s), s.call \in Overridable
      PROVE  Minor(Own(s)) /\ Own(s).call = s.call
  BY <1>4, OwnStep DEF Minor
<1>5. ASSUME NEW m \in Methods \ {"removeEntityByUid"},
             NEW answers \in SUBSET {"none", "pending", "running"}
      PROVE  Minor(Poll(m, answers))
  BY PollStep DEF Minor
<1> QED
  BY <1>1, <1>2, <1>3, <1>4, <1>5

\* A plan of a few minor steps is a minor one.
LEMMA FewSteps ==
  ASSUME NEW c, NEW fx, NEW hs
  PROVE  /\ MinorPlan(Handler(c, fx, hs, <<>>))
         /\ \A s1 : Minor(s1) => MinorPlan(Handler(c, fx, hs, <<s1>>))
         /\ \A s1, s2 : Minor(s1) /\ Minor(s2) => MinorPlan(Handler(c, fx, hs, <<s1, s2>>))
         /\ \A s1, s2, s3 : Minor(s1) /\ Minor(s2) /\ Minor(s3)
              => MinorPlan(Handler(c, fx, hs, <<s1, s2, s3>>))
         /\ \A s1, s2, s3, s4 : Minor(s1) /\ Minor(s2) /\ Minor(s3) /\ Minor(s4)
              => MinorPlan(Handler(c, fx, hs, <<s1, s2, s3, s4>>))
BY DEF MinorPlan, Handler

\* The names of the calls that are not the last one of a deletion.
LEMMA MinorNames ==
  /\ {"getTaskDetails", "describeTaskDefinition", "updateService", "updateTaskDefinition",
      "getLogStreamNames", "getAuditDetails", "getLogStreamData", "getResourceGroupResources",
      "getSecret", "getSSMParameter", "promoteApp", "bindResource", "unBindResource",
      "getEKSAppManifests", "invokeLambda", "deleteTFProvider", "deleteStack",
      "deleteRepository", "deletePlatformSecret", "updateProviderToEnvironment"}
       \subseteq Methods \ {"removeEntityByUid"}
  /\ {"getEntities", "getEntityByRef", "getLocationByRef", "refreshEntity"}
       \subseteq (Methods \cup CatalogMethods) \ {"removeEntityByUid"}
BY MethodsOfCalls, MethodNames

\* The handlers that operate what the page shows are minor,
LEMMA OperationsAreMinor ==
  /\ MinorPlan(StateMount) /\ MinorPlan(ConfigMount) /\ MinorPlan(StartTask)
  /\ MinorPlan(StopTask) /\ MinorPlan(SaveConfig) /\ MinorPlan(SaveEmpty)
  /\ MinorPlan(LogsMount) /\ MinorPlan(AuditMount) /\ MinorPlan(OpenLog)
  /\ MinorPlan(InfraMissing) /\ MinorPlan(DetailsMount)
<1>1. \A m \in Methods \ {"removeEntityByUid"}, fx \in SUBSET Effects, rescue \in SUBSET Effects :
        Minor(Catch(Then(Await(m), fx), rescue))
  BY MinorSteps
<1>2. /\ MinorPlan(StateMount) /\ MinorPlan(ConfigMount) /\ MinorPlan(LogsMount)
      /\ MinorPlan(AuditMount) /\ MinorPlan(OpenLog) /\ MinorPlan(DetailsMount)
  <2>1. {"idle"} \in SUBSET Effects /\ {"broken"} \in SUBSET Effects
          /\ {"idle", "display"} \in SUBSET Effects
    BY DEF Effects
  <2> QED
    BY <1>1, <2>1, FewSteps, MinorNames
       DEF StateMount, ConfigMount, LogsMount, AuditMount, OpenLog, DetailsMount
<1>3. MinorPlan(StartTask)
  <2> DEFINE s1 == Then(Await("updateService"), {"busy"})
             s2 == Leap(Then(Poll("getTaskDetails", {"pending", "running"}),
                             {"idle", "display"}), "running", 1)
             s3 == Then(Each(Poll("getTaskDetails", {"running"}), {"display"}), {"display"})
  <2>1. Minor(s1)
    BY MinorSteps, MinorNames DEF Effects
  <2>2. Minor(s2)
    <3>1. Minor(Poll("getTaskDetails", {"pending", "running"}))
      BY MinorSteps, MinorNames
    <3> QED
      BY <3>1, MinorSteps DEF Effects
  <2>3. Minor(s3)
    <3>1. Minor(Poll("getTaskDetails", {"running"}))
      BY MinorSteps, MinorNames
    <3> QED
      BY <3>1, MinorSteps DEF Effects
  <2> QED
    BY <2>1, <2>2, <2>3, FewSteps DEF StartTask
<1>4. MinorPlan(StopTask)
  <2>1. Minor(Then(Await("updateService"), {"busy"}))
    BY MinorSteps, MinorNames DEF Effects
  <2>2. Minor(Then(Poll("getTaskDetails", {"none"}), {"idle", "display"}))
    <3>1. Minor(Poll("getTaskDetails", {"none"}))
      BY MinorSteps, MinorNames
    <3> QED
      BY <3>1, MinorSteps DEF Effects
  <2> QED
    BY <2>1, <2>2, FewSteps DEF StopTask
<1>5. MinorPlan(SaveConfig)
  <2>1. Minor(Catch(Await("updateTaskDefinition"), {"broken"}))
          /\ Minor(Then(Await("updateService"), {"idle"}))
    BY MinorSteps, MinorNames DEF Effects
  <2> QED
    BY <2>1, FewSteps DEF SaveConfig
<1>6. MinorPlan(SaveEmpty) /\ MinorPlan(InfraMissing)
  BY FewSteps DEF SaveEmpty, InfraMissing
<1> QED
  BY <1>2, <1>3, <1>4, <1>5, <1>6

\* ... as are those of the other pages that delete nothing.
LEMMA OthersAreMinor ==
  /\ MinorPlan(Promote) /\ MinorPlan(Bind) /\ MinorPlan(Unbind) /\ MinorPlan(DeleteSecret)
  /\ MinorPlan(AddProvider) /\ MinorPlan(RemoveProvider) /\ MinorPlan(UpdateProvider)
  /\ \A c : MinorPlan(DeleteRepo(c))
<1>1. MinorPlan(Promote)
  <2>1. Minor(Await("getEntities")) /\ Minor(Await("getEntityByRef"))
    BY MinorSteps, MinorNames
  <2>2. Minor(Own(Await("getSSMParameter")))
    BY MinorSteps, MinorNames, MethodsOfCalls
  <2>3. Minor(Catch(Then(Await("promoteApp"), {"idle"}), {"idle"}))
    BY MinorSteps, MinorNames DEF Effects
  <2> QED
    BY <2>1, <2>2, <2>3, FewSteps DEF Promote
<1>2. MinorPlan(Bind) /\ MinorPlan(Unbind)
  <2>1. /\ Minor(Catch(Then(Await("bindResource"), {"idle"}), {"idle"}))
        /\ Minor(Catch(Then(Await("unBindResource"), {"idle"}), {"idle"}))
    BY MinorSteps, MinorNames DEF Effects
  <2> QED
    BY <2>1, FewSteps DEF Bind, Unbind
<1>3. MinorPlan(DeleteSecret) /\ \A c : MinorPlan(DeleteRepo(c))
  <2>1. /\ Minor(Catch(Await("deletePlatformSecret"), {"idle"}))
        /\ Minor(Catch(Await("deleteRepository"), {"idle"}))
    BY MinorSteps, MinorNames DEF Effects
  <2> QED
    BY <2>1, FewSteps DEF DeleteSecret, DeleteRepo
<1>4. MinorPlan(AddProvider) /\ MinorPlan(RemoveProvider)
  <2>1. Minor(Catch(Await("refreshEntity"), {"idle"}))
    BY MinorSteps, MinorNames DEF Effects
  <2> QED
    BY <2>1, FewSteps DEF AddProvider, RemoveProvider
<1>5. MinorPlan(UpdateProvider)
  <2>1. Minor(Own(Await("updateProviderToEnvironment")))
    BY MinorSteps, MinorNames, MethodsOfCalls
  <2> QED
    BY <2>1, FewSteps DEF UpdateProvider
<1> QED
  BY <1>1, <1>2, <1>3, <1>4, <1>5

\* The calls that delete a deployment.
DeletionCalls == {"deleteStack", "deleteTFProvider"}

\* The handler that deletes a deployment ends with the call that does, and makes no other
\* that changes anything but the one to the Lambda function of the cluster.
LEMMA DeletionIsLast ==
  ASSUME NEW k \in Kinds, NEW done \in SUBSET Effects
  PROVE  LET st == DeleteFromSingleProvider(k, done)
         IN  /\ Len(st) \in Nat \ {0}
             /\ \A i \in 1 .. Len(st) :
                  /\ Minor(st[i]) /\ st[i].call # "sleep"
                  /\ st[i].call \in WorldCalls => st[i].call \in DeletionCalls \cup {"invokeLambda"}
                  /\ st[i].call \in DeletionCalls \/ i + 1 + st[i].leap <= Len(st)
                  /\ i + 1 <= Len(st) \/ st[i].call \in DeletionCalls
<1> DEFINE e1 == Leap(Catch(Await("getEKSAppManifests"), {"idle"}), "none", 2)
           e2 == Catch(Await("getSSMParameter"), {"idle"})
           e3 == Catch(Await("invokeLambda"), {"idle"})
           m == IF ByTerraform(k) THEN "deleteTFProvider" ELSE "deleteStack"
           s == Catch(Then(Own(Await(m)), done), {"idle"})
           st == DeleteFromSingleProvider(k, done)
<1>1. /\ Minor(e1) /\ e1.call = "getEKSAppManifests" /\ e1.leap = 2
      /\ Minor(e2) /\ e2.call = "getSSMParameter" /\ e2.leap = 0
      /\ Minor(e3) /\ e3.call = "invokeLambda" /\ e3.leap = 0
  <2>1. {"idle"} \in SUBSET Effects
    BY DEF Effects
  <2>2. \A n \in {"getEKSAppManifests", "getSSMParameter", "invokeLambda"} :
          LET c == Catch(Await(n), {"idle"})
          IN  Minor(c) /\ c \in Step /\ c.call = n /\ c.leap = 0
    BY <2>1, MinorSteps, MinorNames, AwaitStep, CatchStep
  <2>3. Minor(e1) /\ e1.call = "getEKSAppManifests" /\ e1.leap = 2
    <3> DEFINE c == Catch(Await("getEKSAppManifests"), {"idle"})
    <3>1. Minor(c) /\ c \in Step /\ c.call = "getEKSAppManifests"
      BY <2>2
    <3> HIDE DEF c
    <3>2. Minor(Leap(c, "none", 2)) /\ Leap(c, "none", 2).call = c.call
            /\ Leap(c, "none", 2).leap = 2
      BY <3>1, MinorSteps, LeapStep
    <3> QED
      BY <3>1, <3>2 DEF c
  <2> QED
    BY <2>2, <2>3
<1>2. m \in DeletionCalls /\ m \in Methods \ {"removeEntityByUid"} /\ m \in Overridable
  BY MinorNames, MethodsOfCalls DEF DeletionCalls
<1> HIDE DEF m
<1>3. Minor(s) /\ s.call = m
  <2>1. Minor(Own(Await(m))) /\ Own(Await(m)).call = m
    BY <1>2, MinorSteps
  <2>2. Minor(Then(Own(Await(m)), done)) /\ Then(Own(Await(m)), done).call = m
    BY <2>1, MinorSteps, ThenStep DEF Minor
  <2> QED
    <3>1. {"idle"} \in SUBSET Effects
      BY DEF Effects
    <3> DEFINE u == Then(Own(Await(m)), done)
    <3>2. Minor(u) /\ u \in Step /\ u.call = m
      BY <2>2 DEF Minor
    <3> HIDE DEF u
    <3>3. Minor(Catch(u, {"idle"})) /\ Catch(u, {"idle"}).call = m
      BY <3>1, <3>2, MinorSteps, CatchStep
    <3> QED
      BY <3>3 DEF u
<1> DEFINE before == IF OnEks(k) THEN DeleteK8sApp ELSE <<>>
<1>4. st = before \o <<s>>
  BY DEF DeleteFromSingleProvider, m
<1> HIDE DEF s, st
<1>5. before \in Seq(Step) /\ <<s>> \in Seq(Step)
        /\ before = IF OnEks(k) THEN <<e1, e2, e3>> ELSE <<>>
  <2>1. before = IF OnEks(k) THEN <<e1, e2, e3>> ELSE <<>>
    BY DEF DeleteK8sApp
  <2> HIDE DEF e1, e2, e3, before
  <2> QED
    BY <1>1, <1>3, <2>1 DEF Minor
<1> HIDE DEF e1, e2, e3, before
<1>6. /\ Len(st) = Len(before) + 1
      /\ \A i \in 1 .. Len(before) + 1 : st[i] = IF i <= Len(before) THEN before[i] ELSE s
  <2>1. Len(<<s>>) = 1 /\ <<s>>[1] = s /\ Len(before) \in Nat
    BY <1>5
  <2> QED
    BY <1>4, <1>5, <2>1, ConcatProperties
<1>7. ASSUME NEW i \in 1 .. Len(st)
      PROVE  /\ Minor(st[i]) /\ st[i].call # "sleep"
             /\ st[i].call \in WorldCalls => st[i].call \in DeletionCalls \cup {"invokeLambda"}
             /\ st[i].call \in DeletionCalls \/ i + 1 + st[i].leap <= Len(st)
             /\ i + 1 <= Len(st) \/ st[i].call \in DeletionCalls
  <2>1. CASE OnEks(k)
    <3>1. before = <<e1, e2, e3>> /\ Len(before) = 3 /\ Len(st) = 4
      BY <1>5, <1>6, <2>1
    <3>2. i \in {1, 2, 3, 4}
      BY <3>1
    <3>3. st[1] = e1 /\ st[2] = e2 /\ st[3] = e3 /\ st[4] = s
      BY <1>6, <3>1
    <3> QED
      BY <1>1, <1>2, <1>3, <3>1, <3>2, <3>3 DEF WorldCalls, DeletionCalls
  <2>2. CASE ~OnEks(k)
    <3>1. before = <<>> /\ Len(before) = 0 /\ Len(st) = 1
      BY <1>5, <1>6, <2>2
    <3>2. i = 1 /\ st[1] = s
      BY <1>6, <3>1
    <3> QED
      BY <1>1, <1>2, <1>3, <3>1, <3>2 DEF WorldCalls, DeletionCalls
  <2> QED
    BY <2>1, <2>2
<1>8. Len(st) \in Nat \ {0}
  BY <1>5, <1>6
<1> QED
  BY <1>7, <1>8 DEF st

\* The handlers that are not minor.
Major == {"infraMount", "deleteAll", "deleteEnvironment", "deleteProvider", "deleteFromCatalog"}

\* The plans of the handlers that delete.
LEMMA PlansByName ==
  ASSUME NEW set \in Settings
  PROVE  /\ PlanIn(set, "deleteAll") = DeleteAll(set.kind)
         /\ PlanIn(set, "each") = DeleteEach(set.kind)
         /\ PlanIn(set, "deleteOne") = DeleteOne(set.kind)
         /\ PlanIn(set, "deleteProvider") = DeleteProvider(set.kind)
         /\ PlanIn(set, "deleteEnvironment") = DeleteEnvironment
         /\ PlanIn(set, "infraMount") = InfraMount
         /\ PlanIn(set, "deleteRepo") = DeleteRepo(CardsOf[set.view][1])
         /\ PlanIn(set, "deleteFromCatalog") = DeleteFromCatalog(CardsOf[set.view][1])
         /\ \A h \in DOMAIN OtherPlans : PlanIn(set, h) = OtherPlans[h]
<1>1. set.view \in Views /\ set.kind \in Kinds
  BY SettingsAssumption, KindsAssumption
<1>2. \A h \in KindHandlers : PlanIn(set, h) = PlansOfKind(set.kind)[h]
  BY <1>1 DEF PlanIn, KindPlans, KindHandlers, PageHandlers
<1>3. \A h \in PageHandlers : PlanIn(set, h) = PlansOfPage(CardsOf[set.view][1])[h]
  BY <1>1 DEF PlanIn, PagePlans
<1>4. \A h \in DOMAIN OtherPlans : PlanIn(set, h) = OtherPlans[h]
  BY DEF PlanIn, KindHandlers, PageHandlers, OtherPlans
<1>5. OtherPlans["deleteEnvironment"] = DeleteEnvironment /\ OtherPlans["infraMount"] = InfraMount
        /\ {"deleteEnvironment", "infraMount"} \subseteq DOMAIN OtherPlans
  BY DEF OtherPlans
<1>6. /\ PlanIn(set, "deleteAll") = DeleteAll(set.kind)
      /\ PlanIn(set, "each") = DeleteEach(set.kind)
      /\ PlanIn(set, "deleteOne") = DeleteOne(set.kind)
      /\ PlanIn(set, "deleteProvider") = DeleteProvider(set.kind)
  BY <1>2 DEF KindHandlers, PlansOfKind
<1>7. /\ PlanIn(set, "deleteRepo") = DeleteRepo(CardsOf[set.view][1])
      /\ PlanIn(set, "deleteFromCatalog") = DeleteFromCatalog(CardsOf[set.view][1])
  BY <1>3 DEF PageHandlers, PlansOfPage
<1> QED
  BY <1>4, <1>5, <1>6, <1>7

\* The others delete nothing from the catalog and start no handler.
LEMMA MinorHandlers ==
  ASSUME NEW set \in Settings, NEW h \in Handlers \ Major
  PROVE  MinorPlan(PlanIn(set, h))
<1>1. set.kind \in Kinds
  BY KindsAssumption
<1>2. CASE h \in {"each", "deleteOne"}
  <2>1. \A c, fx, done : done \in SUBSET Effects =>
          MinorPlan(Handler(c, fx, {}, DeleteFromSingleProvider(set.kind, done)))
    BY <1>1, DeletionIsLast DEF MinorPlan, Handler
  <2>2. \A c, fx : MinorPlan(Handler(c, fx, {}, <<>>))
    BY FewSteps
  <2>3. {} \in SUBSET Effects /\ {"idle"} \in SUBSET Effects
    BY DEF Effects
  <2>4. MinorPlan(DeleteEach(set.kind)) /\ MinorPlan(DeleteOne(set.kind))
    BY <2>1, <2>2, <2>3 DEF DeleteEach, DeleteOne
  <2> QED
    BY <1>2, <2>4, PlansByName
<1>3. CASE h = "deleteRepo"
  BY <1>3, PlansByName, OthersAreMinor
<1>4. CASE h \in DOMAIN OtherPlans
  <2>1. PlanIn(set, h) = OtherPlans[h]
    BY <1>4, PlansByName
  <2>2. MinorPlan(OtherPlans[h])
    BY <1>4, OperationsAreMinor, OthersAreMinor DEF OtherPlans, Major
  <2> QED
    BY <2>1, <2>2
<1> QED
  BY <1>2, <1>3, <1>4 DEF Handlers, PageHandlers, KindHandlers, Major

\* The infrastructure card starts the dialogs of what it shows.
LEMMA InfraSteps ==
  ASSUME NEW k \in 1 .. Len(InfraMount.steps)
  PROVE  InfraMount.steps[k].forks = {"details"} /\ InfraMount.steps[k].call # "removeEntityByUid"
<1> DEFINE a == Then(Await("getResourceGroupResources"), {"idle"})
           s == Catch(Fork(a, {"details"}), {"broken"})
<1>1. a \in Step /\ a.call = "getResourceGroupResources"
  BY AwaitStep, ThenStep, MethodsOfCalls DEF Effects
<1>2. InfraMount.steps = <<s>>
  BY DEF InfraMount, Handler
<1> HIDE DEF a
<1>3. s.forks = {"details"} /\ s.call # "removeEntityByUid"
  <2>1. {"details"} \in SUBSET Handlers /\ {"broken"} \in SUBSET Effects
    BY HandlerNames DEF Effects
  <2> DEFINE f == Fork(a, {"details"})
  <2>2. f \in Step /\ f.call = a.call /\ f.forks = {"details"}
    BY <1>1, <2>1, ForkStep
  <2> HIDE DEF f
  <2>3. Catch(f, {"broken"}).call = a.call /\ Catch(f, {"broken"}).forks = {"details"}
    BY <2>1, <2>2, CatchStep
  <2> QED
    BY <1>1, <2>3 DEF f
<1> HIDE DEF s
<1> QED
  BY <1>2, <1>3

\* The steps of the deletions that fork: pauses, after which others are started.
LEMMA ForkingSteps ==
  LET s1 == Fork(Pause, {"deleteRepo"})
      s2 == Fork(Then(Pause, {"idle"}), {"deleteSecret", "deleteFromCatalog"})
      s3 == Then(Pause, {"home"})
      s4 == Then(Pause, {"idle"})
      s5 == Fork(Then(Pause, {"idle"}), {"deleteFromCatalog"})
      s6 == Fork(Then(Pause, {"idle", "home"}), {"deleteFromCatalog"})
  IN  /\ \A s \in {Pause, s1, s2, s3, s4, s5, s6} : s.call = "sleep" /\ s.leap = 0
      /\ Pause.forks = {} /\ s1.forks = {"deleteRepo"}
      /\ s2.forks = {"deleteSecret", "deleteFromCatalog"}
      /\ s3.forks = {} /\ s4.forks = {} /\ s5.forks = {"deleteFromCatalog"}
      /\ s6.forks = {"deleteFromCatalog"}
<1>1. {"idle"} \in SUBSET Effects /\ {"home"} \in SUBSET Effects
        /\ {"idle", "home"} \in SUBSET Effects
  BY DEF Effects
<1>2. {"deleteRepo"} \in SUBSET Handlers /\ {"deleteFromCatalog"} \in SUBSET Handlers
        /\ {"deleteSecret", "deleteFromCatalog"} \in SUBSET Handlers
  BY HandlerNames
<1>3. \A fx \in SUBSET Effects : LET t == Then(Pause, fx)
                                 IN  t \in Step /\ t.call = "sleep" /\ t.forks = {} /\ t.leap = 0
  BY PauseStep, ThenStep
<1>4. \A s \in Step, hs \in SUBSET Handlers :
        s.call = "sleep" /\ s.leap = 0 =>
          LET f == Fork(s, hs) IN f.call = "sleep" /\ f.leap = 0 /\ f.forks = hs
  BY ForkStep
<1> QED
  BY <1>1, <1>2, <1>3, <1>4, PauseStep

\* What is started by the deletion of an application, and when.
LEMMA DeleteAllSteps ==
  ASSUME NEW k \in Kinds, NEW i \in 1 .. Len(DeleteAll(k).steps)
  PROVE  LET s == DeleteAll(k).steps[i]
         IN  /\ s.call = "sleep" /\ s.leap = 0
             /\ IF ByTerraform(k) THEN s.forks = {}
                ELSE \/ i = 1 /\ s.forks = {"deleteRepo"}
                     \/ i = 2 /\ s.forks = {"deleteSecret", "deleteFromCatalog"}
                     \/ i = 3 /\ s.forks = {}
<1> DEFINE s1 == Fork(Pause, {"deleteRepo"})
           s2 == Fork(Then(Pause, {"idle"}), {"deleteSecret", "deleteFromCatalog"})
           s3 == Then(Pause, {"home"})
           s4 == Then(Pause, {"idle"})
           st == DeleteAll(k).steps
<1>1. st = IF k = "other" THEN <<>> ELSE IF ByTerraform(k) THEN <<s4>> ELSE <<s1, s2, s3>>
  BY DEF DeleteAll, Handler
<1>2. /\ \A s \in {s1, s2, s3, s4} : s.call = "sleep" /\ s.leap = 0
      /\ s1.forks = {"deleteRepo"} /\ s2.forks = {"deleteSecret", "deleteFromCatalog"}
      /\ s3.forks = {} /\ s4.forks = {}
  BY ForkingSteps
<1> HIDE DEF s1, s2, s3, s4, st
<1>3. CASE ByTerraform(k) /\ k # "other"
  <2>1. st = <<s4>> /\ i = 1
    BY <1>1, <1>3 DEF st
  <2> QED
    BY <1>2, <1>3, <2>1 DEF st
<1>4. CASE ~ByTerraform(k) /\ k # "other"
  <2>1. st = <<s1, s2, s3>> /\ i \in {1, 2, 3}
    BY <1>1, <1>4 DEF st
  <2> QED
    BY <1>2, <1>4, <2>1 DEF st
<1>5. CASE k = "other"
  <2>1. Len(st) = 0
    BY <1>1, <1>5
  <2> QED
    BY <2>1 DEF st
<1> QED
  BY <1>3, <1>4, <1>5

\* ... of an environment.
LEMMA DeleteEnvironmentSteps ==
  ASSUME NEW i \in 1 .. Len(DeleteEnvironment.steps)
  PROVE  LET s == DeleteEnvironment.steps[i]
         IN  /\ s.call = "sleep" /\ s.leap = 0
             /\ \/ i = 1 /\ s.forks = {}
                \/ i = 2 /\ s.forks = {"deleteFromCatalog"}
<1> DEFINE s2 == Fork(Then(Pause, {"idle", "home"}), {"deleteFromCatalog"})
           st == DeleteEnvironment.steps
<1>1. st = <<Pause, s2>>
  BY DEF DeleteEnvironment, Handler
<1>2. /\ \A s \in {Pause, s2} : s.call = "sleep" /\ s.leap = 0
      /\ Pause.forks = {} /\ s2.forks = {"deleteFromCatalog"}
  BY ForkingSteps
<1> HIDE DEF s2, st
<1>3. i \in {1, 2}
  BY <1>1 DEF st
<1> QED
  BY <1>1, <1>2, <1>3 DEF st

\* ... of a provider.
LEMMA DeleteProviderSteps ==
  ASSUME NEW k \in Kinds, NEW i \in 1 .. Len(DeleteProvider(k).steps)
  PROVE  LET s == DeleteProvider(k).steps[i]
         IN  /\ s.leap = 0
             /\ i = 1 => s.call \in DeletionCalls /\ s.forks = {}
             /\ i # 1 => s.call = "sleep"
             /\ ByTerraform(k) /\ i # 1 => i = 2 /\ s.forks = {"deleteFromCatalog"}
             /\ ~ByTerraform(k) /\ i # 1 =>
                  \/ i = 2 /\ s.forks = {"deleteRepo"}
                  \/ i = 3 /\ s.forks = {"deleteFromCatalog"}
                  \/ i = 4 /\ s.forks = {}
<1> DEFINE s1 == Fork(Pause, {"deleteRepo"})
           s3 == Then(Pause, {"home"})
           s5 == Fork(Then(Pause, {"idle"}), {"deleteFromCatalog"})
           p1 == Catch(Own(Await("deleteTFProvider")), {"idle"})
           p2 == Catch(Own(Await("deleteStack")), {"idle"})
           st == DeleteProvider(k).steps
<1>1. st = IF k = "other" THEN <<>>
           ELSE IF ByTerraform(k) THEN <<p1, s5>> ELSE <<p2, s1, s5, s3>>
  BY DEF DeleteProvider, Handler
<1>2. /\ \A s \in {s1, s3, s5} : s.call = "sleep" /\ s.leap = 0
      /\ s1.forks = {"deleteRepo"} /\ s3.forks = {} /\ s5.forks = {"deleteFromCatalog"}
  BY ForkingSteps
<1>3. \A p \in {p1, p2} : p.call \in DeletionCalls /\ p.leap = 0 /\ p.forks = {}
  <2>1. {"idle"} \in SUBSET Effects
    BY DEF Effects
  <2>2. \A m \in DeletionCalls :
          LET o == Own(Await(m))
          IN  o \in Step /\ o.call = m /\ o.leap = 0 /\ o.forks = {}
    BY AwaitStep, OwnStep, MethodsOfCalls DEF DeletionCalls
  <2>3. \A s \in Step : LET c == Catch(s, {"idle"})
                        IN  c.call = s.call /\ c.leap = s.leap /\ c.forks = s.forks
    BY <2>1, CatchStep
  <2> QED
    BY <2>2, <2>3 DEF DeletionCalls
<1>4. "sleep" \notin DeletionCalls
  BY DEF DeletionCalls
<1> HIDE DEF s1, s3, s5, p1, p2, st
<1>5. CASE ByTerraform(k) /\ k # "other"
  <2>1. st = <<p1, s5>> /\ i \in {1, 2}
    BY <1>1, <1>5 DEF st
  <2> QED
    BY <1>2, <1>3, <1>5, <2>1 DEF st
<1>6. CASE ~ByTerraform(k) /\ k # "other"
  <2>1. st = <<p2, s1, s5, s3>> /\ i \in {1, 2, 3, 4}
    BY <1>1, <1>6 DEF st
  <2> QED
    BY <1>2, <1>3, <1>6, <2>1 DEF st
<1>7. CASE k = "other"
  <2>1. Len(st) = 0
    BY <1>1, <1>7
  <2> QED
    BY <2>1 DEF st
<1> QED
  BY <1>5, <1>6, <1>7

\* The last handlers of a deletion start none, and the repository is deleted in one step.
LEMMA LastSteps ==
  ASSUME NEW c
  PROVE  /\ Len(DeleteRepo(c).steps) = 1
         /\ DeleteRepo(c).steps[1].call = "deleteRepository"
         /\ DeleteRepo(c).forks = {}
         /\ \A i \in 1 .. Len(DeleteFromCatalog(c).steps) : DeleteFromCatalog(c).steps[i].forks = {}
<1> DEFINE r == Catch(Await("deleteRepository"), {"idle"})
           l == Await("getLocationByRef")
           u == Await("removeEntityByUid")
<1>1. r.call = "deleteRepository"
  <2>1. {"idle"} \in SUBSET Effects
    BY DEF Effects
  <2>2. Await("deleteRepository") \in Step /\ Await("deleteRepository").call = "deleteRepository"
    BY AwaitStep, MethodsOfCalls
  <2> QED
    BY <2>1, <2>2, CatchStep
<1>2. l.forks = {} /\ u.forks = {}
  BY AwaitStep, MethodNames
<1>3. /\ DeleteRepo(c).steps = <<r>> /\ DeleteRepo(c).forks = {}
      /\ DeleteFromCatalog(c).steps = <<l, u>>
  BY DEF DeleteRepo, DeleteFromCatalog, Handler
<1> HIDE DEF r, l, u
<1> QED
  BY <1>1, <1>2, <1>3

-------------------------------------------------------------------------------
(* What has been tried of what leaves the catalog. *)

\* The handlers of the pages of applications that delete nothing.
Operating ==
  {"stateMount", "configMount", "start", "stop", "save", "saveEmpty", "logsMount",
   "auditMount", "openLog", "infraMount", "infraMissing", "details"}

Operates(set) == set.view \in {"ecs", "details"}
PlainView(set) == set.view \in {"environment", "provider"}

\* The handlers that another one starts, on the pages that delete.
Forks == {"each", "deleteRepo", "deleteSecret", "deleteFromCatalog", "attach", "detach"}

AtWork(r) == r.at # "free"

\* Whether a handler may be in a slot, about the deployment d.
Fits(set, s, h, d) ==
  IF Operates(set) THEN h \in Operating
  ELSE /\ s \notin MountSlots
       /\ s \in Clicks => h \in HandlersOf(set.view)
       /\ s \in Deps => h = "each" /\ d = s
       /\ s = "repo" => h = "deleteRepo"
       /\ s = "secret" => h = "deleteSecret"
       /\ s = "catalog" => h = "deleteFromCatalog"
       /\ s = "provider" => h \in {"attach", "detach"}

Placed(set, s, r) == IF AtWork(r) THEN Fits(set, s, r.h, r.dep) ELSE r = Off

\* What is through, is under way or has been refused.  gone and cleared: what is through;
\* quiet: the entities that have nothing attached but what came after their page was opened.
Tried ==
  [stacks |-> {d \in Deps : stack[d] = "going" \/ d \in refused \/ thread[d].h = "each"},
   gone |-> Gone,
   repos |-> {a \in Apps : \/ a \notin repo \/ a \in refused
                           \/ thread["repo"].h = "deleteRepo" /\ AppOf[thread["repo"].home] = a},
   cleared |-> Apps \ repo,
   quiet |-> {a \in Apps : a \in attached => a \in unseen}]

\* What has to be tried before an entity leaves the catalog.
Whole(set, w, a) ==
  /\ a \in w.repos \/ (set.view = "provider" /\ ByTerraform(set.kind))
  /\ set.view = "management" => DeploymentsOf(a) \subseteq w.stacks
  /\ set.view = "provider" => Lowest[a] \in w.stacks
  /\ PlainView(set) => a \in w.quiet

\* What has been tried when a handler is at its step.
Due(set, w, r) ==
  LET a == AppOf[r.home]
  IN  /\ r.h = "deleteAll" /\ ~ByTerraform(set.kind) =>
           DeploymentsOf(a) \subseteq w.stacks /\ (r.step > 1 => a \in w.repos)
      /\ r.h = "deleteEnvironment" => a \in w.repos /\ a \in w.quiet
      /\ r.h = "deleteProvider" =>
           /\ a \in w.quiet /\ r.dep = Lowest[a]
           /\ r.step > 1 \/ r.at = "answered" => r.dep \in w.gone
           /\ r.step > 2 => a \in w.repos
      /\ r.h = "deleteFromCatalog" => Whole(set, w, a)
      /\ r.h = "each" /\ r.at = "answered" /\ StepIn(set, r).call \in DeletionCalls =>
           r.dep \in w.gone
      /\ r.h = "deleteRepo" /\ r.at = "answered" => a \in w.cleared

Slotted == \A s \in Slots : Placed(setting, s, thread[s])

\* On the pages that delete, the handlers under way are all of one application.
Of(a) == \A s \in Slots : AtWork(thread[s]) => AppOf[thread[s].home] = a
Alone ==
  ~Operates(setting) =>
    \A s, t \in Slots : AtWork(thread[s]) /\ AtWork(thread[t])
                          => AppOf[thread[s].home] = AppOf[thread[t].home]

Dues == \A s \in Slots : AtWork(thread[s]) => Due(setting, Tried, thread[s])

Left ==
  /\ Operates(setting) => listed = setting.pages
  /\ \A a \in setting.pages \ listed : Whole(setting, Tried, a)
  /\ PlainView(setting) => \A a \in Apps \ listed : a \in Tried.quiet

\* The page of an environment or a provider shows its lowest deployment, and was opened with
\* nothing attached unless the card knows.
Opened ==
  PlainView(setting) =>
    /\ \A n \in Loads : load[n].at \in {"unused", "shown"}
    /\ shown # None => /\ shown = Lowest[AppOf[shown]]
                       /\ known \/ AppOf[shown] \in Tried.quiet

Tries == Slotted /\ Alone /\ Dues /\ Left /\ Opened

\* What is tried stays tried: w2 has what w has, and of an entity, whether it is quiet.
Grows(w, w2) ==
  /\ w.stacks \subseteq w2.stacks /\ w.repos \subseteq w2.repos
  /\ w.gone \subseteq w2.gone /\ w.cleared \subseteq w2.cleared

Quieter(w, w2, a) == a \in w.quiet => a \in w2.quiet

\* What has been tried for an entity remains so.
LEMMA WholeGrows ==
  ASSUME NEW set, NEW w, NEW w2, NEW a, Grows(w, w2), Quieter(w, w2, a), Whole(set, w, a)
  PROVE  Whole(set, w2, a)
BY DEF Grows, Quieter, Whole

\* ... and for a handler.
LEMMA DueGrows ==
  ASSUME NEW set, NEW w, NEW w2, NEW r, Grows(w, w2), Quieter(w, w2, AppOf[r.home]),
         Due(set, w, r)
  PROVE  Due(set, w2, r)
<1> DEFINE a == AppOf[r.home]
<1>1. r.h = "deleteFromCatalog" => Whole(set, w2, a)
  BY WholeGrows DEF Due
<1> QED
  BY <1>1 DEF Due, Grows, Quieter

-------------------------------------------------------------------------------
(* The slots. *)

\* The views.
LEMMA ViewNames ==
  ASSUME NEW set \in Settings
  PROVE  /\ set.view \in {"ecs", "details", "management", "environment", "provider"}
         /\ ~Operates(set) <=> set.view \in {"management", "environment", "provider"}
         /\ HookIn(set) <=> ~PlainView(set)
         /\ Operates(set) => ~PlainView(set)
         /\ HandlersOf("ecs") = {"start", "stop", "save", "saveEmpty"}
         /\ HandlersOf("details") = {"openLog"}
         /\ HandlersOf("management") = {"promote", "bind", "unbind", "deleteOne", "deleteAll"}
         /\ HandlersOf("environment") = {"addProvider", "removeProvider", "deleteEnvironment"}
         /\ HandlersOf("provider") = {"deleteProvider"}
<1>1. set.view \in {"ecs", "details", "management", "environment", "provider"}
  BY SettingsAssumption DEF Views
<1>2. /\ HandlersOf("ecs") = {"start", "stop", "save", "saveEmpty"}
      /\ HandlersOf("details") = {"openLog"}
      /\ HandlersOf("management") = {"promote", "bind", "unbind", "deleteOne", "deleteAll"}
      /\ HandlersOf("environment") = {"addProvider", "removeProvider", "deleteEnvironment"}
      /\ HandlersOf("provider") = {"deleteProvider"}
  BY DEF HandlersOf
<1> QED
  BY <1>1, <1>2 DEF Operates, PlainView, HookIn

\* No slot is of two sorts.
LEMMA SlotSorts ==
  /\ Deps \subseteq Slots /\ Clicks \subseteq Slots
  /\ {"repo", "secret", "catalog", "provider"} \subseteq Slots
  /\ \A s \in Slots : \/ s \in MountSlots /\ s \notin Clicks /\ s \notin Deps /\ s \notin ForkSlots
                      \/ s \in Clicks /\ s \notin MountSlots /\ s \notin Deps /\ s \notin ForkSlots
                      \/ s \in Deps /\ s \notin MountSlots /\ s \notin Clicks /\ s \notin ForkSlots
                      \/ s \in ForkSlots /\ s \notin MountSlots /\ s \notin Clicks /\ s \notin Deps
BY SlotsAssumption DEF Slots, MountSlots, ForkSlots

\* The slots that a started handler takes.
LEMMA SlotsOfForks ==
  ASSUME NEW a, NEW s \in Slots, NEW h, s \in SlotsOf(h, a)
  PROVE  /\ h \in Forks /\ s \in Deps => h = "each"
         /\ h \in Forks /\ s \notin Deps =>
              \/ s = "repo" /\ h = "deleteRepo"
              \/ s = "secret" /\ h = "deleteSecret"
              \/ s = "catalog" /\ h = "deleteFromCatalog"
              \/ s = "provider" /\ h \in {"attach", "detach"}
<1>1. h = "each" => s \in Deps
  BY DEF SlotsOf, DeploymentsOf
<1>2. \A x \in {"repo", "secret", "catalog", "provider"} : x \notin Deps
  BY SlotSorts DEF ForkSlots
<1> QED
  BY <1>1, <1>2 DEF SlotsOf, Forks

\* What At makes of a handler: it is over, or at the step.
LEMMA AtIs ==
  ASSUME setting \in Settings, NEW r, NEW k \in Nat \ {0}, NEW shared, r.h \in Handlers
  PROVE  LET a == At(r, k, shared)
             n == Len(PlanIn(setting, r.h).steps)
         IN  /\ n \in Nat
             /\ k > n => a = Off /\ ~AtWork(a)
             /\ k <= n => /\ AtWork(a) /\ a.at # "answered" /\ a.step = k
                          /\ a.h = r.h /\ a.home = r.home /\ a.dep = r.dep
<1> DEFINE st == PlanIn(setting, r.h).steps
           a == At(r, k, shared)
<1>1. st \in Seq(Step) /\ Len(st) \in Nat
  BY SettledPlans DEF IsPlan
<1>2. CASE k > Len(st)
  <2>1. a = Off
    BY <1>2, InTheSetting DEF At
  <2> QED
    BY <1>1, <1>2, <2>1, OffIsFree DEF AtWork
<1>3. CASE ~(k > Len(st))
  <2> DEFINE s == st[k]
             at == IF s.pause THEN "asleep" ELSE "sent"
             to == IF s.pause THEN None ELSE Named(s, r, shared)
  <2>1. a = [h |-> r.h, step |-> k, at |-> at, got |-> "", mount |-> r.mount,
             home |-> r.home, dep |-> r.dep, to |-> to]
    BY <1>3, InTheSetting DEF At
  <2>2. at \in {"asleep", "sent"}
    OBVIOUS
  <2> HIDE DEF at, to, a
  <2>3. AtWork(a) /\ a.at # "answered" /\ a.step = k /\ a.h = r.h /\ a.home = r.home
          /\ a.dep = r.dep
    BY <2>1, <2>2 DEF AtWork
  <2> QED
    BY <1>1, <1>3, <2>3 DEF a
<1> QED
  BY <1>2, <1>3

\* A slot that is off holds no handler.
LEMMA OffIsNone == Off.h = "none" /\ Off.step = 0 /\ ~AtWork(Off)
BY DEF Off, AtWork

\* The slots when one goes on and others start.
LEMMA WhoGoesOn ==
  ASSUME NEW t \in Slots, NEW next, NEW r, NEW hs, Goes(t, next, r, hs), NEW s \in Slots
  PROVE  \/ s = t /\ thread'[s] = next
         \/ s # t /\ thread'[s] = thread[s] /\ \A h \in hs : s \notin SlotsOf(h, AppOf[r.home])
         \/ s # t /\ \E h \in hs :
              /\ s \in SlotsOf(h, AppOf[r.home])
              /\ thread'[s] = At(Called(h, r.mount, r.home, IF s \in Deps THEN s ELSE r.home),
                                 1, params)
<1>1. thread' = [x \in Slots |->
         IF x = t THEN next
         ELSE IF Forked(r, hs, x) = {} THEN thread[x]
         ELSE At(Called(CHOOSE h \in Forked(r, hs, x) : TRUE, r.mount, r.home,
                        IF x \in Deps THEN x ELSE r.home), 1, params)]
  BY DEF Goes
<1>2. CASE s = t
  BY <1>1, <1>2
<1>3. CASE s # t /\ Forked(r, hs, s) = {}
  BY <1>1, <1>3 DEF Forked
<1>4. CASE s # t /\ Forked(r, hs, s) # {}
  <2> DEFINE h == CHOOSE x \in Forked(r, hs, s) : TRUE
  <2>1. h \in Forked(r, hs, s)
    BY <1>4
  <2>2. h \in hs /\ s \in SlotsOf(h, AppOf[r.home])
    BY <2>1 DEF Forked
  <2>3. thread'[s] = At(Called(h, r.mount, r.home, IF s \in Deps THEN s ELSE r.home), 1, params)
    BY <1>1, <1>4
  <2> HIDE DEF h
  <2> QED
    BY <1>4, <2>2, <2>3
<1> QED
  BY <1>2, <1>3, <1>4

\* What a click starts besides its own handler.
LEMMA FirstForks ==
  ASSUME NEW set \in Settings, NEW h \in HandlersOf(set.view)
  PROVE  /\ h \in Handlers
         /\ PlanIn(set, h).forks =
              IF h = "deleteAll" THEN {"each"}
              ELSE IF h = "addProvider" THEN {"attach"}
              ELSE IF h = "removeProvider" THEN {"detach"}
              ELSE IF h = "deleteEnvironment" THEN {"deleteRepo"} ELSE {}
<1>1. h \in {"start", "stop", "save", "saveEmpty", "openLog", "promote", "bind", "unbind",
             "deleteOne", "deleteAll", "addProvider", "removeProvider", "deleteEnvironment",
             "deleteProvider"}
  BY ViewNames
<1>2. \A c, fx, hs, st : Handler(c, fx, hs, st).forks = hs
  BY DEF Handler
<1>3. CASE h \in {"deleteOne", "deleteAll", "deleteProvider"}
  <2>1. \A k : /\ DeleteOne(k).forks = {} /\ DeleteAll(k).forks = {"each"}
               /\ DeleteProvider(k).forks = {}
    BY <1>2 DEF DeleteOne, DeleteAll, DeleteProvider
  <2>2. /\ PlanIn(set, "deleteOne").forks = {} /\ PlanIn(set, "deleteAll").forks = {"each"}
        /\ PlanIn(set, "deleteProvider").forks = {}
    BY <2>1, PlansByName
  <2>3. {"deleteOne", "deleteAll", "deleteProvider"} \subseteq Handlers
    BY HandlerNames
  <2> QED
    BY <1>3, <2>2, <2>3
<1>4. CASE h \in {"start", "stop", "save", "saveEmpty", "openLog"}
  <2>1. h \in DOMAIN OtherPlans /\ OtherPlans[h].forks = {}
    BY <1>2, <1>4 DEF OtherPlans, StartTask, StopTask, SaveConfig, SaveEmpty, OpenLog
  <2> QED
    BY <1>4, <2>1, PlansByName, HandlerNames
<1>5. CASE h \in {"promote", "bind", "unbind", "addProvider", "removeProvider",
                  "deleteEnvironment"}
  <2>1. /\ h \in DOMAIN OtherPlans
        /\ OtherPlans[h].forks = IF h = "addProvider" THEN {"attach"}
                                 ELSE IF h = "removeProvider" THEN {"detach"}
                                 ELSE IF h = "deleteEnvironment" THEN {"deleteRepo"} ELSE {}
    <3>1. /\ Promote.forks = {} /\ Bind.forks = {} /\ Unbind.forks = {}
          /\ AddProvider.forks = {"attach"} /\ RemoveProvider.forks = {"detach"}
          /\ DeleteEnvironment.forks = {"deleteRepo"}
      BY <1>2 DEF Promote, Bind, Unbind, AddProvider, RemoveProvider, DeleteEnvironment
    <3>2. /\ OtherPlans["promote"] = Promote /\ OtherPlans["bind"] = Bind
          /\ OtherPlans["unbind"] = Unbind /\ OtherPlans["addProvider"] = AddProvider
          /\ OtherPlans["removeProvider"] = RemoveProvider
          /\ OtherPlans["deleteEnvironment"] = DeleteEnvironment
          /\ h \in DOMAIN OtherPlans
      BY <1>5 DEF OtherPlans
    <3> QED
      BY <1>5, <3>1, <3>2
  <2> QED
    BY <1>5, <2>1, PlansByName, HandlerNames
<1> QED
  BY <1>1, <1>3, <1>4, <1>5

-------------------------------------------------------------------------------
(* What a handler does between two awaits. *)

\* A handler that has been started in a slot, about the deployment of the slot.
Started(c, s, h, home) ==
  /\ AtWork(c) /\ c.at # "answered" /\ c.step = 1
  /\ c.h = h /\ c.home = home /\ c.dep = IF s \in Deps THEN s ELSE home

\* The slots after a handler goes on or ends: the others are as they were or have just been
\* given a handler.
LEMMA SlotsAfter ==
  ASSUME setting \in Settings, NEW t \in Slots, NEW next, NEW r, NEW hs \in SUBSET Handlers,
         Goes(t, next, r, hs), NEW s \in Slots
  PROVE  \/ s = t /\ thread'[s] = next
         \/ s # t /\ thread'[s] = thread[s] /\ \A h \in hs : s \notin SlotsOf(h, AppOf[r.home])
         \/ s # t /\ \E h \in hs :
              /\ s \in SlotsOf(h, AppOf[r.home])
              /\ \/ thread'[s] = Off /\ Len(PlanIn(setting, h).steps) = 0
                 \/ Started(thread'[s], s, h, r.home)
<1>1. ASSUME NEW h \in hs, NEW d, d = (IF s \in Deps THEN s ELSE r.home),
             thread'[s] = At(Called(h, r.mount, r.home, d), 1, params)
      PROVE  \/ thread'[s] = Off /\ Len(PlanIn(setting, h).steps) = 0
             \/ Started(thread'[s], s, h, r.home)
  <2> DEFINE c == Called(h, r.mount, r.home, d)
             a == At(c, 1, params)
             n == Len(PlanIn(setting, h).steps)
  <2>1. c.h = h /\ c.home = r.home /\ c.dep = d
    BY CalledIs
  <2> HIDE DEF c
  <2>2. /\ n \in Nat
        /\ 1 > n => a = Off
        /\ 1 <= n => /\ AtWork(a) /\ a.at # "answered" /\ a.step = 1
                     /\ a.h = h /\ a.home = r.home /\ a.dep = d
    BY <2>1, AtIs
  <2>3. thread'[s] = a
    BY <1>1 DEF c
  <2> HIDE DEF a
  <2>4. CASE n = 0
    BY <2>2, <2>3, <2>4
  <2>5. CASE n # 0
    <3>1. 1 <= n
      BY <2>2, <2>5
    <3> QED
      BY <1>1, <2>2, <2>3, <3>1 DEF Started
  <2> QED
    BY <2>4, <2>5
<1> QED
  BY <1>1, WhoGoesOn

\* The plans that delete a repository or a deployment have a step.
LEMMA PlansBegin ==
  ASSUME NEW set \in Settings
  PROVE  /\ Len(PlanIn(set, "deleteRepo").steps) # 0
         /\ set.kind # "other" => Len(PlanIn(set, "each").steps) # 0
<1>1. Len(PlanIn(set, "deleteRepo").steps) # 0
  BY PlansByName, LastSteps
<1>2. ASSUME set.kind # "other" PROVE Len(PlanIn(set, "each").steps) # 0
  <2>1. PlanIn(set, "each").steps = DeleteFromSingleProvider(set.kind, {})
    BY <1>2, PlansByName DEF DeleteEach, Handler
  <2>2. Len(DeleteFromSingleProvider(set.kind, {})) \in Nat \ {0}
    <3>1. set.kind \in Kinds /\ {} \in SUBSET Effects
      BY KindsAssumption
    <3> QED
      BY <3>1, DeletionIsLast
  <2> QED
    BY <2>1, <2>2
<1> QED
  BY <1>1, <1>2

\* What a handler does between two awaits leaves every slot with a handler of its own and of
\* the same application, and what has been tried remains so.
LEMMA SegmentGrows ==
  ASSUME Inv, Slotted, ~Operates(setting), setting' = setting,
         NEW t \in Slots, NEW next, NEW r, NEW hs \in SUBSET Forks, Goes(t, next, r, hs),
         r.home \in Deps, Of(AppOf[r.home]), Fits(setting, t, r.h, r.dep),
         hs # {} => t \in Clicks,
         next = Off \/ (AtWork(next) /\ next.h = r.h /\ next.home = r.home /\ next.dep = r.dep),
         thread[t] = r \/ thread[t] = Off,
         next = Off /\ r.h = "each" => t \in Gone \/ t \in refused',
         next = Off /\ r.h = "deleteRepo" =>
           AppOf[r.home] \notin repo \/ AppOf[r.home] \in refused',
         stack' = stack, repo' = repo, attached' = attached, unseen' = unseen,
         refused \subseteq refused'
  PROVE  /\ Slotted'
         /\ \A s \in Slots : AtWork(thread'[s]) => AppOf[thread'[s].home] = AppOf[r.home]
         /\ Grows(Tried, Tried') /\ Tried'.quiet = Tried.quiet
         /\ "deleteRepo" \in hs => AppOf[r.home] \in Tried'.repos
         /\ "each" \in hs /\ setting.kind # "other" =>
              DeploymentsOf(AppOf[r.home]) \subseteq Tried'.stacks
<1> DEFINE a == AppOf[r.home]
<1>1. setting \in Settings /\ hs \in SUBSET Handlers /\ a \in Apps
  BY InvParts, HandlerNames, DepsAssumption DEF Forks
<1>2. ASSUME NEW s \in Slots
      PROVE  \/ s = t /\ thread'[s] = next
             \/ s # t /\ thread'[s] = thread[s] /\ \A h \in hs : s \notin SlotsOf(h, a)
             \/ s # t /\ \E h \in hs :
                  /\ s \in SlotsOf(h, a)
                  /\ \/ thread'[s] = Off /\ Len(PlanIn(setting, h).steps) = 0
                     \/ Started(thread'[s], s, h, r.home)
  BY <1>1, SlotsAfter
<1> HIDE DEF a
<1>3. ASSUME NEW s \in Slots, NEW h \in hs, s \in SlotsOf(h, a)
      PROVE  /\ \A c : Started(c, s, h, r.home) => Fits(setting, s, h, c.dep)
             /\ s \in Deps => h = "each"
             /\ s = "repo" => h = "deleteRepo"
  BY <1>3, SlotsOfForks, SlotSorts DEF Fits, Started, ForkSlots
<1>4. \A s \in Slots : Placed(setting, s, thread'[s])
  <2> SUFFICES ASSUME NEW s \in Slots PROVE Placed(setting, s, thread'[s])
    OBVIOUS
  <2>1. CASE s = t /\ thread'[s] = next
    BY <2>1, OffIsNone DEF Placed
  <2>2. CASE thread'[s] = thread[s]
    BY <2>2 DEF Slotted
  <2>3. CASE \E h \in hs : /\ s \in SlotsOf(h, a)
                           /\ thread'[s] = Off \/ Started(thread'[s], s, h, r.home)
    <3>1. PICK h \in hs : /\ s \in SlotsOf(h, a)
                          /\ thread'[s] = Off \/ Started(thread'[s], s, h, r.home)
      BY <2>3
    <3>2. CASE thread'[s] = Off
      BY <3>2, OffIsNone DEF Placed
    <3>3. CASE Started(thread'[s], s, h, r.home)
      <4>1. Fits(setting, s, h, thread'[s].dep)
        BY <1>3, <3>1, <3>3
      <4> QED
        BY <3>3, <4>1 DEF Placed, Started
    <3> QED
      BY <3>1, <3>2, <3>3
  <2> QED
    BY <1>2, <2>1, <2>2, <2>3
<1>5. \A s \in Slots : AtWork(thread'[s]) => AppOf[thread'[s].home] = a
  <2> SUFFICES ASSUME NEW s \in Slots, AtWork(thread'[s]) PROVE AppOf[thread'[s].home] = a
    OBVIOUS
  <2>1. CASE s = t /\ thread'[s] = next
    BY <2>1, OffIsNone DEF a
  <2>2. CASE thread'[s] = thread[s]
    BY <2>2 DEF Of, a
  <2>3. CASE \E h \in hs : thread'[s] = Off \/ Started(thread'[s], s, h, r.home)
    BY <2>3, OffIsNone DEF Started, a
  <2> QED
    BY <1>2, <2>1, <2>2, <2>3
<1>6. \A s \in Slots : thread[s].h # "none" =>
        /\ AtWork(thread[s]) /\ Fits(setting, s, thread[s].h, thread[s].dep)
        /\ Len(PlanIn(setting, thread[s].h).steps) # 0
  <2> SUFFICES ASSUME NEW s \in Slots, thread[s].h # "none"
               PROVE  /\ AtWork(thread[s]) /\ Fits(setting, s, thread[s].h, thread[s].dep)
                      /\ Len(PlanIn(setting, thread[s].h).steps) # 0
    OBVIOUS
  <2>1. AtWork(thread[s]) /\ Fits(setting, s, thread[s].h, thread[s].dep)
    BY OffIsNone DEF Slotted, Placed
  <2>2. thread[s].step \in 1 .. Len(PlanIn(setting, thread[s].h).steps)
    BY <2>1 DEF Inv, Threads, Live, AtWork
  <2> QED
    BY <2>1, <2>2
<1>7. Tried.stacks \subseteq Tried'.stacks
  <2> SUFFICES ASSUME NEW d \in Deps, thread[d].h = "each"
               PROVE  stack'[d] = "going" \/ d \in refused' \/ thread'[d].h = "each"
    BY DEF Tried
  <2>1. d \in Slots /\ Len(PlanIn(setting, "each").steps) # 0
    BY <1>6, SlotSorts
  <2>2. CASE d = t /\ thread'[d] = next
    <3>1. thread[t] = r /\ r.h = "each"
      BY <2>2, OffIsNone
    <3> QED
      BY <2>2, <3>1 DEF Gone
  <2>3. CASE thread'[d] = thread[d]
    BY <2>3
  <2>4. CASE \E h \in hs : /\ d \in SlotsOf(h, a)
                           /\ \/ thread'[d] = Off /\ Len(PlanIn(setting, h).steps) = 0
                              \/ Started(thread'[d], d, h, r.home)
    BY <1>3, <2>1, <2>4 DEF Started
  <2> QED
    BY <1>2, <2>1, <2>2, <2>3, <2>4
<1>8. Len(PlanIn(setting, "deleteRepo").steps) # 0 /\ "repo" \in Slots
  BY <1>1, PlansBegin, SlotSorts
<1>9. Tried.repos \subseteq Tried'.repos
  <2> SUFFICES ASSUME NEW b \in Apps, thread["repo"].h = "deleteRepo",
                      AppOf[thread["repo"].home] = b
               PROVE  \/ b \notin repo' \/ b \in refused'
                      \/ thread'["repo"].h = "deleteRepo" /\ AppOf[thread'["repo"].home] = b
    BY DEF Tried
  <2>1. a = b
    BY <1>6, <1>8 DEF Of, a
  <2>2. CASE "repo" = t /\ thread'["repo"] = next
    <3>1. thread[t] = r /\ r.h = "deleteRepo"
      BY <2>2, OffIsNone
    <3> QED
      BY <2>1, <2>2, <3>1 DEF a
  <2>3. CASE thread'["repo"] = thread["repo"]
    BY <2>3
  <2>4. CASE \E h \in hs : /\ "repo" \in SlotsOf(h, a)
                           /\ \/ thread'["repo"] = Off /\ Len(PlanIn(setting, h).steps) = 0
                              \/ Started(thread'["repo"], "repo", h, r.home)
    BY <1>3, <1>8, <2>1, <2>4 DEF Started, a
  <2> QED
    BY <1>2, <1>8, <2>2, <2>3, <2>4
<1>10. Grows(Tried, Tried') /\ Tried'.quiet = Tried.quiet
  <2>1. Tried'.gone = Tried.gone /\ Tried'.cleared = Tried.cleared /\ Tried'.quiet = Tried.quiet
    BY DEF Tried, Gone
  <2> QED
    BY <1>7, <1>9, <2>1 DEF Grows
<1>11. ASSUME "deleteRepo" \in hs PROVE a \in Tried'.repos
  <2>1. "repo" # t /\ "repo" \in SlotsOf("deleteRepo", a)
    BY <1>11, SlotSorts DEF ForkSlots, SlotsOf
  <2>2. PICK h \in hs : /\ "repo" \in SlotsOf(h, a)
                        /\ \/ thread'["repo"] = Off /\ Len(PlanIn(setting, h).steps) = 0
                           \/ Started(thread'["repo"], "repo", h, r.home)
    BY <1>2, <1>8, <1>11, <2>1
  <2>3. h = "deleteRepo"
    BY <1>3, <1>8, <2>2
  <2>4. thread'["repo"].h = "deleteRepo" /\ AppOf[thread'["repo"].home] = a
    BY <1>8, <2>2, <2>3 DEF Started, a
  <2> QED
    BY <1>1, <2>4 DEF Tried
<1>12. ASSUME "each" \in hs, setting.kind # "other", NEW d \in DeploymentsOf(a)
       PROVE  d \in Tried'.stacks
  <2>1. d \in Deps /\ d \in Slots /\ d # t /\ d \in SlotsOf("each", a)
    BY <1>12, SlotSorts DEF DeploymentsOf, SlotsOf
  <2>2. PICK h \in hs : /\ d \in SlotsOf(h, a)
                        /\ \/ thread'[d] = Off /\ Len(PlanIn(setting, h).steps) = 0
                           \/ Started(thread'[d], d, h, r.home)
    BY <1>2, <1>12, <2>1
  <2>3. h = "each"
    BY <1>3, <2>1, <2>2
  <2>4. thread'[d].h = "each"
    BY <1>1, <1>12, <2>2, <2>3, PlansBegin DEF Started
  <2> QED
    BY <2>1, <2>4 DEF Tried
<1> QED
  BY <1>4, <1>5, <1>10, <1>11, <1>12 DEF Slotted, a

\* The page is left or stays as it is when a handler goes on.
LEMMA SegmentKeepsOpened ==
  ASSUME Inv, Opened, setting' = setting, NEW t, NEW next, NEW r, NEW fx, NEW hs,
         Segment(t, next, r, fx, hs), Tried'.quiet = Tried.quiet
  PROVE  Opened'
<1> SUFFICES ASSUME PlainView(setting)
             PROVE  /\ \A n \in Loads : load'[n].at \in {"unused", "shown"}
                    /\ shown' # None => /\ shown' = Lowest[AppOf[shown']]
                                        /\ known' \/ AppOf[shown'] \in Tried'.quiet
  BY DEF Opened
<1>1. CASE "home" \in fx
  <2>1. load' = LoadsLeft /\ shown' = None
    BY <1>1 DEF Segment, LeavePage
  <2>2. \A n \in Loads : LoadsLeft[n].at \in {"unused", "shown"}
    BY DEF Opened, LoadsLeft, Unused
  <2> QED
    BY <2>1, <2>2
<1>2. CASE "home" \notin fx
  <2>1. UNCHANGED contextVars /\ known' = known
    BY <1>2 DEF Segment, Affect, pageVars
  <2> QED
    BY <2>1 DEF contextVars, Opened
<1> QED
  BY <1>1, <1>2

\* What leaves the catalog keeps its deletions under way when a handler goes on.
LEMMA SegmentTries ==
  ASSUME Inv, Tries, ~Operates(setting), setting' = setting,
         NEW t \in Slots, NEW next, NEW r, NEW fx, NEW hs \in SUBSET Forks,
         Segment(t, next, r, fx, hs),
         Slotted',
         \A s \in Slots : AtWork(thread'[s]) => AppOf[thread'[s].home] = AppOf[r.home],
         Grows(Tried, Tried'), Tried'.quiet = Tried.quiet,
         AtWork(next) => Due(setting, Tried', next),
         "deleteFromCatalog" \in hs => Whole(setting, Tried, AppOf[r.home]),
         listed' = listed
  PROVE  Tries'
<1>1. setting \in Settings /\ hs \in SUBSET Handlers
  BY InvParts, HandlerNames DEF Forks
<1>2. Alone'
  BY DEF Alone
<1>3. Dues'
  <2> SUFFICES ASSUME NEW s \in Slots, AtWork(thread'[s])
               PROVE  Due(setting, Tried', thread'[s])
    BY DEF Dues
  <2>1. Goes(t, next, r, hs)
    BY DEF Segment
  <2>2. \/ s = t /\ thread'[s] = next
        \/ s # t /\ thread'[s] = thread[s]
        \/ \E h \in hs : thread'[s] = Off \/ Started(thread'[s], s, h, r.home)
    BY <1>1, <2>1, SlotsAfter
  <2>3. CASE s = t /\ thread'[s] = next
    BY <2>3
  <2>4. CASE thread'[s] = thread[s]
    <3>1. Due(setting, Tried, thread[s])
      BY <2>4 DEF Tries, Dues
    <3>2. Due(setting, Tried', thread[s])
      BY <3>1, DueGrows DEF Quieter
    <3> QED
      BY <2>4, <3>2
  <2>5. CASE \E h \in hs : thread'[s] = Off \/ Started(thread'[s], s, h, r.home)
    <3>1. PICK h \in hs : Started(thread'[s], s, h, r.home)
      BY <2>5, OffIsNone
    <3>2. "deleteFromCatalog" \in hs => Whole(setting, Tried', AppOf[r.home])
      BY WholeGrows DEF Quieter
    <3>3. h \in Forks
      OBVIOUS
    <3> QED
      BY <3>1, <3>2, <3>3 DEF Started, Due, Forks
  <2> QED
    BY <2>2, <2>3, <2>4, <2>5
<1>4. Left'
  <2>1. Operates(setting') => listed' = setting'.pages
    OBVIOUS
  <2>2. ASSUME NEW a \in setting.pages \ listed PROVE Whole(setting, Tried', a)
    <3>1. Whole(setting, Tried, a)
      BY <2>2 DEF Tries, Left
    <3> QED
      BY <3>1, WholeGrows DEF Quieter
  <2>3. PlainView(setting) => \A a \in Apps \ listed : a \in Tried'.quiet
    BY DEF Tries, Left
  <2> QED
    BY <2>1, <2>2, <2>3 DEF Left
<1>5. Opened'
  BY SegmentKeepsOpened DEF Tries
<1> QED
  BY <1>2, <1>3, <1>4, <1>5 DEF Tries

\* On the pages that operate, no handler takes anything out of the catalog: all there is to
\* keep is which handlers they are.
LEMMA NothingLeaves ==
  ASSUME Operates(setting), setting \in Settings, setting' = setting, listed' = listed,
         Left, Slotted'
  PROVE  Tries'
<1>1. Alone' /\ Opened'
  BY ViewNames DEF Alone, Opened
<1>2. Dues'
  <2> SUFFICES ASSUME NEW s \in Slots, AtWork(thread'[s])
               PROVE  Due(setting, Tried', thread'[s])
    BY DEF Dues
  <2>1. thread'[s].h \in Operating
    BY DEF Slotted, Placed, Fits
  <2> QED
    BY <2>1 DEF Operating, Due
<1>3. Left'
  BY ViewNames DEF Left
<1> QED
  BY <1>1, <1>2, <1>3 DEF Tries

\* On the pages that operate, a handler that goes on starts others that operate.
LEMMA SegmentOperates ==
  ASSUME Inv, Tries, Operates(setting), setting' = setting, listed' = listed,
         NEW t \in Slots, NEW next, NEW r, NEW fx, NEW hs \in SUBSET {"details"},
         Segment(t, next, r, fx, hs),
         next = Off \/ (AtWork(next) /\ next.h = r.h), r.h \in Operating
  PROVE  Tries'
<1>1. setting \in Settings /\ hs \in SUBSET Handlers
  BY InvParts, HandlerNames
<1>2. Slotted'
  <2> SUFFICES ASSUME NEW s \in Slots PROVE Placed(setting, s, thread'[s])
    BY DEF Slotted
  <2>1. Goes(t, next, r, hs)
    BY DEF Segment
  <2>2. \/ thread'[s] = next \/ thread'[s] = thread[s] \/ thread'[s] = Off
        \/ \E h \in hs : Started(thread'[s], s, h, r.home)
    BY <1>1, <2>1, SlotsAfter
  <2>3. CASE thread'[s] = thread[s]
    BY <2>3 DEF Tries, Slotted
  <2>4. CASE thread'[s] = Off
    BY <2>4, OffIsNone DEF Placed
  <2>5. CASE thread'[s] = next /\ next # Off
    BY <2>5 DEF Placed, Fits
  <2>6. CASE \E h \in hs : Started(thread'[s], s, h, r.home)
    <3>1. "details" \in Operating
      BY DEF Operating
    <3> QED
      BY <2>6, <3>1 DEF Placed, Fits, Started
  <2> QED
    BY <2>2, <2>3, <2>4, <2>5, <2>6
<1> QED
  BY <1>1, <1>2, NothingLeaves DEF Tries

-------------------------------------------------------------------------------
(* What is due at each step. *)

\* Where the handlers that delete can be, and on which page.
LEMMA WhereFits ==
  ASSUME NEW set \in Settings, ~Operates(set), NEW s \in Slots, NEW h, NEW d, Fits(set, s, h, d)
  PROVE  /\ h # "infraMount"
         /\ h \in {"deleteAll", "deleteEnvironment", "deleteProvider"} => s \in Clicks
         /\ h = "deleteAll" => set.view = "management"
         /\ h = "deleteEnvironment" => set.view = "environment"
         /\ h = "deleteProvider" => set.view = "provider"
         /\ h = "each" => s \in Deps /\ d = s
         /\ h = "deleteRepo" => s = "repo"
<1>1. CASE s \in Clicks
  <2>1. h \in HandlersOf(set.view)
    BY <1>1 DEF Fits
  <2> QED
    BY <1>1, <2>1, ViewNames
<1>2. CASE s \notin Clicks
  BY <1>2, SlotSorts DEF Fits, ForkSlots
<1> QED
  BY <1>1, <1>2

\* The handlers under way that delete one deployment, or the repository, end with the
\* answer to the request that did.
LEMMA EndsAreAnswered ==
  ASSUME NEW set \in Settings, NEW r, r.h \in {"each", "deleteRepo"},
         r.step \in 1 .. Len(PlanIn(set, r.h).steps),
         NEW k \in {r.step + 1, r.step + 1 + StepIn(set, r).leap},
         k > Len(PlanIn(set, r.h).steps)
  PROVE  StepIn(set, r).call \in IF r.h = "each" THEN DeletionCalls ELSE {"deleteRepository"}
<1>1. CASE r.h = "deleteRepo"
  <2>1. PlanIn(set, r.h) = DeleteRepo(CardsOf[set.view][1])
    BY <1>1, PlansByName
  <2>2. StepIn(set, r).call = "deleteRepository"
    BY <2>1, LastSteps DEF StepIn
  <2> QED
    BY <1>1, <2>2
<1>2. CASE r.h = "each"
  <2>1. PlanIn(set, r.h) = DeleteEach(set.kind)
    BY <1>2, PlansByName
  <2> DEFINE st == DeleteFromSingleProvider(set.kind, {})
  <2>2. set.kind \in Kinds /\ {} \in SUBSET Effects
    BY KindsAssumption
  <2>3. /\ Len(st) \in Nat
        /\ \A i \in 1 .. Len(st) : /\ st[i].call \in DeletionCalls \/ i + 1 + st[i].leap <= Len(st)
                                   /\ i + 1 <= Len(st) \/ st[i].call \in DeletionCalls
                                   /\ Minor(st[i])
    BY <2>2, DeletionIsLast
  <2>4. CASE set.kind = "other"
    BY <2>1, <2>4 DEF DeleteEach, Handler
  <2>5. CASE set.kind # "other"
    <3>1. PlanIn(set, r.h).steps = st
      BY <2>1, <2>5 DEF DeleteEach, Handler
    <3> HIDE DEF st
    <3>2. StepIn(set, r) = st[r.step] /\ r.step \in 1 .. Len(st) /\ k > Len(st)
      BY <3>1 DEF StepIn
    <3>3. st[r.step].leap \in Nat
      BY <2>3, <3>2 DEF Minor, Step
    <3> QED
      BY <1>2, <2>3, <3>2, <3>3
  <2> QED
    BY <2>4, <2>5
<1> QED
  BY <1>1, <1>2

\* What a step starts, on the pages that delete.
LEMMA StartedBySteps ==
  ASSUME NEW set \in Settings, NEW r, r.h \in Handlers \ {"infraMount"},
         r.step \in 1 .. Len(PlanIn(set, r.h).steps)
  PROVE  LET s == StepIn(set, r)
         IN  /\ s.forks \in SUBSET Forks
             /\ s.forks # {} => r.h \in {"deleteAll", "deleteEnvironment", "deleteProvider"}
<1>1. set.kind \in Kinds
  BY KindsAssumption
<1>2. CASE r.h \notin Major
  BY <1>2, MinorHandlers DEF MinorPlan, Minor, StepIn
<1>3. CASE r.h = "deleteAll"
  BY <1>1, <1>3, PlansByName, DeleteAllSteps DEF StepIn, Forks
<1>4. CASE r.h = "deleteEnvironment"
  BY <1>4, PlansByName, DeleteEnvironmentSteps DEF StepIn, Forks
<1>5. CASE r.h = "deleteProvider"
  <2>1. PlanIn(set, r.h) = DeleteProvider(set.kind)
    BY <1>5, PlansByName
  <2>2. StepIn(set, r).forks \in {{}, {"deleteRepo"}, {"deleteFromCatalog"}}
    BY <1>1, <2>1, DeleteProviderSteps DEF StepIn
  <2> QED
    BY <1>5, <2>2 DEF Forks
<1>6. CASE r.h = "deleteFromCatalog"
  BY <1>6, PlansByName, LastSteps DEF StepIn
<1> QED
  BY <1>2, <1>3, <1>4, <1>5, <1>6 DEF Major

\* What has to be tried before the next step has been, when a handler goes on.
LEMMA NextIsDue ==
  ASSUME NEW set \in Settings, NEW r, NEW w, NEW w2, NEW next,
         r.h \in Handlers, r.step \in 1 .. Len(PlanIn(set, r.h).steps), Due(set, w, r),
         Grows(w, w2), w2.quiet = w.quiet,
         next.h = r.h, next.home = r.home, next.dep = r.dep, next.at # "answered",
         next.step \in {r.step + 1, r.step + 1 + StepIn(set, r).leap},
         next.step \in 1 .. Len(PlanIn(set, r.h).steps),
         StepIn(set, r).call \in WorldCalls => r.at = "answered",
         "deleteRepo" \in StepIn(set, r).forks => AppOf[r.home] \in w2.repos
  PROVE  Due(set, w2, next)
<1> DEFINE a == AppOf[r.home]
           s == StepIn(set, r)
<1>1. set.kind \in Kinds
  BY KindsAssumption
<1>2. Due(set, w2, r)
  BY DueGrows DEF Quieter
<1>3. CASE r.h = "deleteAll"
  <2>1. PlanIn(set, r.h) = DeleteAll(set.kind)
    BY <1>3, PlansByName
  <2>2. s.leap = 0 /\ (~ByTerraform(set.kind) => r.step # 1 \/ s.forks = {"deleteRepo"})
    BY <1>1, <2>1, DeleteAllSteps DEF StepIn
  <2>3. next.step = r.step + 1
    BY <2>2
  <2> HIDE DEF s
  <2>4. ~ByTerraform(set.kind) => DeploymentsOf(a) \subseteq w2.stacks /\ a \in w2.repos
    BY <1>2, <1>3, <2>2 DEF Due, s
  <2> QED
    BY <1>3, <2>4 DEF Due
<1>4. CASE r.h = "deleteProvider"
  <2>1. PlanIn(set, r.h) = DeleteProvider(set.kind)
    BY <1>4, PlansByName
  <2>2. r.step \in 1 .. Len(DeleteProvider(set.kind).steps)
          /\ next.step \in 1 .. Len(DeleteProvider(set.kind).steps)
          /\ s = DeleteProvider(set.kind).steps[r.step]
    BY <2>1 DEF StepIn
  <2>3. /\ s.leap = 0
        /\ r.step = 1 => s.call \in DeletionCalls
        /\ ByTerraform(set.kind) => next.step \in {1, 2}
        /\ ~ByTerraform(set.kind) => r.step # 2 \/ s.forks = {"deleteRepo"}
    BY <1>1, <2>2, DeleteProviderSteps
  <2>4. next.step = r.step + 1 /\ r.step \in Nat
    BY <2>3
  <2> HIDE DEF s
  <2>5. r.step = 1 => r.at = "answered"
    BY <2>3 DEF DeletionCalls, WorldCalls, s
  <2>6. a \in w2.quiet /\ r.dep = Lowest[a] /\ r.dep \in w2.gone
    BY <1>2, <1>4, <2>4, <2>5 DEF Due
  <2>7. next.step > 2 => a \in w2.repos
    BY <1>2, <1>4, <2>3, <2>4 DEF Due, s
  <2> QED
    BY <1>4, <2>6, <2>7 DEF Due
<1>5. CASE r.h \notin {"deleteAll", "deleteProvider"}
  BY <1>2, <1>5 DEF Due
<1> QED
  BY <1>3, <1>4, <1>5

\* All has been tried when the entity is to leave the catalog.
LEMMA CatalogIsDue ==
  ASSUME NEW set \in Settings, NEW r, NEW w,
         r.h \in Handlers \ {"infraMount"}, r.step \in 1 .. Len(PlanIn(set, r.h).steps),
         Due(set, w, r), w.gone \subseteq w.stacks,
         r.h = "deleteAll" => set.view = "management",
         r.h = "deleteEnvironment" => set.view = "environment",
         r.h = "deleteProvider" => set.view = "provider",
         "deleteFromCatalog" \in StepIn(set, r).forks
  PROVE  Whole(set, w, AppOf[r.home])
<1> DEFINE a == AppOf[r.home]
           s == StepIn(set, r)
<1>1. set.kind \in Kinds
  BY KindsAssumption
<1>2. r.h \in {"deleteAll", "deleteEnvironment", "deleteProvider"}
  BY StartedBySteps
<1>3. CASE r.h = "deleteAll"
  <2>1. PlanIn(set, r.h) = DeleteAll(set.kind)
    BY <1>3, PlansByName
  <2>2. ~ByTerraform(set.kind) /\ r.step = 2
    BY <1>1, <2>1, DeleteAllSteps DEF StepIn
  <2>3. DeploymentsOf(a) \subseteq w.stacks /\ a \in w.repos
    BY <1>3, <2>2 DEF Due
  <2> QED
    BY <1>3, <2>3 DEF Whole, PlainView
<1>4. CASE r.h = "deleteEnvironment"
  BY <1>4 DEF Due, Whole
<1>5. CASE r.h = "deleteProvider"
  <2>1. PlanIn(set, r.h) = DeleteProvider(set.kind)
    BY <1>5, PlansByName
  <2>2. IF ByTerraform(set.kind) THEN r.step = 2 ELSE r.step = 3
    BY <1>1, <2>1, DeleteProviderSteps DEF StepIn
  <2>3. a \in w.quiet /\ Lowest[a] \in w.gone /\ (~ByTerraform(set.kind) => a \in w.repos)
    BY <1>5, <2>2 DEF Due
  <2> QED
    BY <1>5, <2>3 DEF Whole
<1> QED
  BY <1>2, <1>3, <1>4, <1>5

-------------------------------------------------------------------------------
(* The steps of the portal. *)

\* What is known of a handler under way.
LEMMA UnderWayIs ==
  ASSUME Inv, Tries, NEW t \in Slots, AtWork(thread[t])
  PROVE  LET r == thread[t]
         IN  /\ setting \in Settings /\ r.h \in Handlers /\ r.home \in Deps /\ r.dep \in Deps
             /\ r.step \in 1 .. Len(PlanIn(setting, r.h).steps)
             /\ Len(PlanIn(setting, r.h).steps) \in Nat
             /\ StepOf(r) = StepIn(setting, r) /\ StepOf(r) \in Step
             /\ Fits(setting, t, r.h, r.dep)
             /\ ~Operates(setting) => Of(AppOf[r.home])
             /\ Due(setting, Tried, r)
<1>1. thread[t].at # "free" /\ setting \in Settings
  BY InvParts DEF AtWork
<1>2. Live(setting, thread[t]) /\ StepOf(thread[t]) \in Step
  BY <1>1, AtWorkIsFit, InvParts DEF Threads
<1>3. Fits(setting, t, thread[t].h, thread[t].dep) /\ Due(setting, Tried, thread[t])
  BY DEF Tries, Slotted, Placed, Dues
<1>4. ~Operates(setting) => Of(AppOf[thread[t].home])
  BY DEF Tries, Alone, Of
<1>5. Len(PlanIn(setting, thread[t].h).steps) \in Nat
  BY <1>1, <1>2, SettledPlans DEF Live, IsPlan
<1> QED
  BY <1>1, <1>2, <1>3, <1>4, <1>5, InTheSetting DEF Live

\* On the pages that operate, handlers start nothing but dialogs and delete no entity.
LEMMA OperatingSteps ==
  ASSUME NEW set \in Settings, NEW r, r.h \in Operating, r.h \in Handlers,
         r.step \in 1 .. Len(PlanIn(set, r.h).steps)
  PROVE  /\ StepIn(set, r).forks \in SUBSET {"details"}
         /\ StepIn(set, r).call # "removeEntityByUid"
<1>1. CASE r.h = "infraMount"
  BY <1>1, PlansByName, InfraSteps DEF StepIn
<1>2. CASE r.h # "infraMount"
  <2>1. r.h \in Handlers \ Major
    BY <1>2 DEF Operating, Major
  <2> QED
    BY <2>1, MinorHandlers DEF MinorPlan, Minor, StepIn
<1> QED
  BY <1>1, <1>2

\* A handler goes on with its next step.
LEMMA OnwardTries ==
  ASSUME Inv, Tries, setting' = setting, UNCHANGED worldVars,
         NEW t \in Slots, AtWork(thread[t]), NEW fx,
         NEW k \in {thread[t].step + 1, thread[t].step + 1 + StepOf(thread[t]).leap},
         StepOf(thread[t]).call \in WorldCalls => thread[t].at = "answered",
         Segment(t, At(thread[t], k, params), thread[t], fx, StepOf(thread[t]).forks)
  PROVE  Tries'
<1> DEFINE r == thread[t]
           st == StepOf(r)
           n == Len(PlanIn(setting, r.h).steps)
           next == At(r, k, params)
           a == AppOf[r.home]
<1>1. /\ setting \in Settings /\ r.h \in Handlers /\ r.home \in Deps /\ r.dep \in Deps
      /\ r.step \in 1 .. n /\ n \in Nat /\ st = StepIn(setting, r) /\ st \in Step
      /\ Fits(setting, t, r.h, r.dep) /\ (~Operates(setting) => Of(a))
      /\ Due(setting, Tried, r)
  BY UnderWayIs
<1>2. k \in Nat \ {0} /\ k \in {r.step + 1, r.step + 1 + st.leap}
  <2>1. k \in {r.step + 1, r.step + 1 + st.leap}
    OBVIOUS
  <2> HIDE DEF r, st, n
  <2>2. st.leap \in Nat
    BY <1>1 DEF Step
  <2>3. r.step \in Nat
    BY <1>1
  <2> QED
    BY <2>1, <2>2, <2>3
<1>3. /\ k > n => next = Off /\ ~AtWork(next)
      /\ k <= n => /\ AtWork(next) /\ next.at # "answered" /\ next.step = k
                   /\ next.h = r.h /\ next.home = r.home /\ next.dep = r.dep
  BY <1>1, <1>2, AtIs
<1>4. Segment(t, next, r, fx, st.forks) /\ (st.call \in WorldCalls => r.at = "answered")
        /\ thread[t] = r
  OBVIOUS
<1> HIDE DEF r, st, n, next, a
<1>5. next = Off \/ (AtWork(next) /\ next.h = r.h /\ next.home = r.home /\ next.dep = r.dep)
  BY <1>1, <1>2, <1>3
<1>6. stack' = stack /\ repo' = repo /\ attached' = attached /\ unseen' = unseen
        /\ refused' = refused /\ listed' = listed
  BY DEF worldVars
<1>7. CASE Operates(setting)
  <2>1. r.h \in Operating
    BY <1>1, <1>7 DEF Fits
  <2>2. st.forks \in SUBSET {"details"}
    BY <1>1, <2>1, OperatingSteps DEF n
  <2> QED
    BY <1>4, <1>5, <1>6, <1>7, <2>1, <2>2, SegmentOperates
<1>8. CASE ~Operates(setting)
  <2>1. /\ r.h # "infraMount"
        /\ r.h \in {"deleteAll", "deleteEnvironment", "deleteProvider"} => t \in Clicks
        /\ r.h = "deleteAll" => setting.view = "management"
        /\ r.h = "deleteEnvironment" => setting.view = "environment"
        /\ r.h = "deleteProvider" => setting.view = "provider"
        /\ r.h = "each" => r.dep = t
    BY <1>1, <1>8, WhereFits
  <2>2. st.forks \in SUBSET Forks /\ (st.forks # {} => t \in Clicks)
    BY <1>1, <2>1, StartedBySteps DEF n
  <2>3. next = Off => k > n
    BY <1>1, <1>2, <1>3, OffIsNone
  <2>4. next = Off /\ r.h \in {"each", "deleteRepo"} =>
          r.at = "answered" /\ (r.h = "each" => st.call \in DeletionCalls)
    <3>1. ASSUME next = Off, r.h \in {"each", "deleteRepo"}
          PROVE  st.call \in IF r.h = "each" THEN DeletionCalls ELSE {"deleteRepository"}
      BY <1>1, <1>2, <2>3, <3>1, EndsAreAnswered DEF n
    <3> QED
      BY <1>4, <3>1 DEF DeletionCalls, WorldCalls
  <2>5. next = Off /\ r.h = "each" => t \in Gone
    BY <1>1, <2>1, <2>4 DEF Due, Tried
  <2>6. next = Off /\ r.h = "deleteRepo" => a \notin repo
    BY <1>1, <2>4 DEF Due, Tried, a
  <2>7. /\ Slotted'
        /\ \A s \in Slots : AtWork(thread'[s]) => AppOf[thread'[s].home] = a
        /\ Grows(Tried, Tried') /\ Tried'.quiet = Tried.quiet
        /\ "deleteRepo" \in st.forks => a \in Tried'.repos
    <3>1. Goes(t, next, r, st.forks)
      BY <1>4 DEF Segment
    <3> QED
      BY <1>1, <1>4, <1>5, <1>6, <1>8, <2>2, <2>5, <2>6, <3>1, SegmentGrows DEF Tries, a
  <2>8. AtWork(next) => Due(setting, Tried', next)
    <3>1. AtWork(next) => k \in 1 .. n
      BY <1>1, <1>2, <1>3
    <3> QED
      BY <1>1, <1>2, <1>3, <1>4, <2>7, <3>1, NextIsDue DEF n, a
  <2>9. "deleteFromCatalog" \in st.forks => Whole(setting, Tried, a)
    <3>1. Tried.gone \subseteq Tried.stacks
      BY DEF Tried, Gone
    <3> QED
      BY <1>1, <2>1, <3>1, CatalogIsDue DEF n, a
  <2> QED
    BY <1>4, <1>6, <1>8, <2>2, <2>7, <2>8, <2>9, SegmentTries DEF a
<1> QED
  BY <1>7, <1>8

\* A handler polls again.
LEMMA PollTries ==
  ASSUME Inv, Tries, NEW t \in Slots, PollAgain(t)
  PROVE  Tries'
<1> DEFINE r == thread[t]
           st == StepOf(r)
           n == Len(PlanIn(setting, r.h).steps)
           next == At(r, r.step, params)
<1>1. AtWork(r) /\ setting' = setting /\ UNCHANGED worldVars /\ Segment(t, next, r, st.each, {})
  BY DEF PollAgain, Answers, AtWork
<1>2. /\ setting \in Settings /\ r.h \in Handlers /\ r.home \in Deps /\ r.dep \in Deps
      /\ r.step \in 1 .. n /\ n \in Nat
      /\ Fits(setting, t, r.h, r.dep) /\ (~Operates(setting) => Of(AppOf[r.home]))
      /\ Due(setting, Tried, r)
  BY <1>1, UnderWayIs
<1>3. /\ AtWork(next) /\ next.at # "answered" /\ next.step = r.step
      /\ next.h = r.h /\ next.home = r.home /\ next.dep = r.dep
  <2>1. r.step \in Nat \ {0} /\ r.step <= n
    BY <1>2
  <2> QED
    BY <1>2, <2>1, AtIs
<1>4. thread[t] = r
  OBVIOUS
<1> HIDE DEF r, st, n, next
<1>5. stack' = stack /\ repo' = repo /\ attached' = attached /\ unseen' = unseen
        /\ refused' = refused /\ listed' = listed
  BY <1>1 DEF worldVars
<1>6. CASE Operates(setting)
  <2>1. r.h \in Operating
    BY <1>2, <1>6 DEF Fits
  <2> QED
    BY <1>1, <1>3, <1>5, <1>6, <2>1, SegmentOperates
<1>7. CASE ~Operates(setting)
  <2>1. /\ Slotted'
        /\ \A s \in Slots : AtWork(thread'[s]) => AppOf[thread'[s].home] = AppOf[r.home]
        /\ Grows(Tried, Tried') /\ Tried'.quiet = Tried.quiet
    <3>1. Goes(t, next, r, {})
      BY <1>1 DEF Segment
    <3>2. next # Off
      BY <1>3, OffIsNone
    <3> QED
      BY <1>1, <1>2, <1>3, <1>4, <1>5, <1>7, <3>1, <3>2, SegmentGrows DEF Tries
  <2>2. Due(setting, Tried', next)
    <3>1. Due(setting, Tried', r)
      BY <1>2, <2>1, DueGrows DEF Quieter
    <3> QED
      BY <1>3, <3>1 DEF Due
  <2> QED
    BY <1>1, <1>5, <1>7, <2>1, <2>2, SegmentTries
<1> QED
  BY <1>6, <1>7

\* An answer is taken.
LEMMA ContinueTries ==
  ASSUME Inv, Tries, NEW t \in Slots, Continue(t)
  PROVE  Tries'
<1>1. CASE PollAgain(t)
  BY <1>1, PollTries
<1>2. CASE GoOn(t)
  <2> DEFINE r == thread[t]
             st == StepOf(r)
  <2>1. PICK got \in Answers(r) :
          Segment(t, At(r, r.step + 1 + (IF got = st.leapOn THEN st.leap ELSE 0), params),
                  r, st.then, st.forks)
    BY <1>2 DEF GoOn
  <2>2. setting' = setting /\ UNCHANGED worldVars
    BY <1>2 DEF GoOn
  <2>3. AtWork(r) /\ (st.call \in WorldCalls => r.at = "answered")
    BY <2>1 DEF Answers, AtWork
  <2> DEFINE k == r.step + 1 + (IF got = st.leapOn THEN st.leap ELSE 0)
  <2>4. k \in {r.step + 1, r.step + 1 + st.leap}
    <3>1. r.step \in Nat
      BY <2>3, UnderWayIs
    <3> HIDE DEF r, st
    <3> QED
      BY <3>1
  <2>5. Segment(t, At(r, k, params), r, st.then, st.forks)
    BY <2>1
  <2> HIDE DEF k
  <2> QED
    BY <2>2, <2>3, <2>4, <2>5, OnwardTries
<1> QED
  BY <1>1, <1>2 DEF Continue

\* A request fails.
LEMMA FailTries ==
  ASSUME Inv, Tries, NEW t \in Slots, Fail(t)
  PROVE  Tries'
<1> DEFINE r == thread[t]
           fx == IF StepOf(r).caught THEN StepOf(r).rescue
                 ELSE IF card[Plan(r.h).card] = "busy" THEN {"stuck"} ELSE {}
<1>1. /\ AtWork(r) /\ Segment(t, Off, r, fx, {}) /\ setting' = setting
      /\ refused' = refused \cup Undeleted(r)
      /\ UNCHANGED <<desired, task, stack, workload, repo, listed, attached, unseen>>
  BY DEF Fail, AtWork
<1>2. /\ setting \in Settings /\ r.home \in Deps
      /\ Fits(setting, t, r.h, r.dep) /\ (~Operates(setting) => Of(AppOf[r.home]))
  BY <1>1, UnderWayIs
<1>3. thread[t] = r
  OBVIOUS
<1> HIDE DEF r, fx
<1>4. CASE Operates(setting)
  BY <1>1, <1>2, <1>4, SegmentOperates DEF Fits
<1>5. CASE ~Operates(setting)
  <2>1. r.h = "each" => t \in Gone \/ t \in refused'
    BY <1>1, <1>2, <1>5, WhereFits DEF Undeleted
  <2>2. r.h = "deleteRepo" => AppOf[r.home] \notin repo \/ AppOf[r.home] \in refused'
    BY <1>1 DEF Undeleted
  <2>3. /\ Slotted'
        /\ \A s \in Slots : AtWork(thread'[s]) => AppOf[thread'[s].home] = AppOf[r.home]
        /\ Grows(Tried, Tried') /\ Tried'.quiet = Tried.quiet
    <3>1. Goes(t, Off, r, {})
      BY <1>1 DEF Segment
    <3> QED
      BY <1>1, <1>2, <1>3, <1>5, <2>1, <2>2, <3>1, SegmentGrows DEF Tries
  <2> QED
    BY <1>1, <1>5, <2>3, OffIsNone, SegmentTries
<1> QED
  BY <1>4, <1>5

\* A pause is over.
LEMMA WakeTries ==
  ASSUME Inv, Tries, NEW t \in Slots, Wake(t)
  PROVE  Tries'
<1> DEFINE r == thread[t]
           st == StepOf(r)
<1>1. AtWork(r) /\ r.at = "asleep" /\ setting' = setting /\ UNCHANGED worldVars
  BY DEF Wake, AtWork
<1>2. CASE st.call = "sleep"
  <2>1. Segment(t, At(r, r.step + 1, params), r, st.then, st.forks)
    BY <1>2 DEF Wake
  <2>2. st.call \notin WorldCalls
    BY <1>2 DEF WorldCalls
  <2> QED
    BY <1>1, <2>1, <2>2, OnwardTries
<1>3. CASE st.call # "sleep"
  <2> DEFINE a == [[r EXCEPT !.at = "sent"] EXCEPT !.to = Named(st, r, params)]
  <2>1. thread' = [thread EXCEPT ![t] = a] /\ UNCHANGED <<contextVars, pageVars>>
    BY <1>3 DEF Wake
  <2>2. a.at = "sent" /\ a.h = r.h /\ a.home = r.home /\ a.dep = r.dep /\ a.step = r.step
    <3>1. r \in Thread
      BY InvParts
    <3> HIDE DEF r, st
    <3> QED
      BY <3>1 DEF Thread
  <2>3. thread \in [Slots -> Thread]
    BY InvParts
  <2> HIDE DEF a
  <2>4. \A s \in Slots : thread'[s] = thread[s] \/ (s = t /\ thread'[s] = a)
    BY <2>1, <2>3
  <2>5. \A s \in Slots :
          /\ AtWork(thread'[s]) => AtWork(thread[s])
          /\ thread'[s].h = thread[s].h /\ thread'[s].home = thread[s].home
          /\ thread'[s].dep = thread[s].dep /\ thread'[s].step = thread[s].step
          /\ thread'[s].at = thread[s].at \/ (thread'[s].at = "sent" /\ s = t)
    BY <1>1, <2>2, <2>4
  <2>6. Tried' = Tried
    <3>1. {d \in Deps : stack'[d] = "going" \/ d \in refused' \/ thread'[d].h = "each"}
            = {d \in Deps : stack[d] = "going" \/ d \in refused \/ thread[d].h = "each"}
      BY <1>1, <2>5, SlotSorts DEF worldVars
    <3>2. thread'["repo"].h = thread["repo"].h /\ thread'["repo"].home = thread["repo"].home
      BY <2>5, SlotSorts
    <3> QED
      BY <1>1, <3>1, <3>2 DEF Tried, Gone, worldVars
  <2>7. Slotted'
    <3> SUFFICES ASSUME NEW s \in Slots PROVE Placed(setting, s, thread'[s])
      BY <1>1 DEF Slotted
    <3>1. Placed(setting, s, thread[s])
      BY DEF Tries, Slotted
    <3>2. CASE thread'[s] = thread[s]
      BY <3>1, <3>2
    <3>3. CASE s = t /\ thread'[s] = a
      BY <1>1, <2>2, <3>1, <3>3 DEF Placed, AtWork
    <3> QED
      BY <2>4, <3>2, <3>3
  <2>8. Alone'
    BY <1>1, <2>5 DEF Tries, Alone
  <2>9. Dues'
    <3> SUFFICES ASSUME NEW s \in Slots, AtWork(thread'[s])
                 PROVE  Due(setting, Tried, thread'[s])
      BY <1>1, <2>6 DEF Dues
    <3>1. Due(setting, Tried, thread[s])
      BY <2>5 DEF Tries, Dues
    <3> QED
      BY <2>5, <3>1 DEF Due, StepIn
  <2>10. Left' /\ Opened'
    BY <1>1, <2>1, <2>6 DEF Tries, Left, Opened, worldVars, contextVars, pageVars
  <2> QED
    BY <2>7, <2>8, <2>9, <2>10 DEF Tries
<1> QED
  BY <1>2, <1>3

\* A click.
LEMMA ClickTries ==
  ASSUME Inv, Tries, NEW t \in setting.clicks, NEW h \in Handlers, Click(t, h)
  PROVE  Tries'
<1> DEFINE r == Called(h, current, shown, shown)
           n == Len(PlanIn(setting, h).steps)
           next == At(r, 1, params)
           hs == Plan(h).forks
           a == AppOf[shown]
<1>1. /\ setting \in Settings /\ current \in Loads /\ shown \in Deps /\ shown # None
      /\ a \in Apps /\ t \in Slots /\ t \in Clicks
  <2>1. setting \in Settings /\ ContextTypeOK /\ Shows /\ shown # None
    BY InvParts DEF Click, Offered
  <2>2. current \in Loads /\ shown \in Deps
    BY <2>1, ShownIsOfThePage
  <2> QED
    BY <2>1, <2>2, DepsAssumption, KindsAssumption, SlotSorts
<1>2. /\ thread[t] = Off /\ h \in HandlersOf(setting.view)
      /\ h \in {"deleteEnvironment", "deleteProvider"} => ~known
      /\ ~Operates(setting) => \A s \in Slots : thread[s] = Off
      /\ Segment(t, next, r, Plan(h).first, hs) /\ setting' = setting /\ UNCHANGED worldVars
  BY DEF Click, Offered, Operates, view
<1>3. r.h = h /\ r.home = shown /\ r.dep = shown
  BY CalledIs
<1>4. hs = IF h = "deleteAll" THEN {"each"}
           ELSE IF h = "addProvider" THEN {"attach"}
           ELSE IF h = "removeProvider" THEN {"detach"}
           ELSE IF h = "deleteEnvironment" THEN {"deleteRepo"} ELSE {}
  BY <1>1, <1>2, FirstForks, InTheSetting
<1> HIDE DEF r, hs, next
<1>5. /\ n \in Nat
      /\ 1 > n => next = Off /\ ~AtWork(next)
      /\ 1 <= n => /\ AtWork(next) /\ next.at # "answered" /\ next.step = 1
                   /\ next.h = h /\ next.home = shown /\ next.dep = shown
  <2>1. /\ Len(PlanIn(setting, r.h).steps) \in Nat
        /\ 1 > Len(PlanIn(setting, r.h).steps) => next = Off /\ ~AtWork(next)
        /\ 1 <= Len(PlanIn(setting, r.h).steps) =>
             /\ AtWork(next) /\ next.at # "answered" /\ next.step = 1
             /\ next.h = r.h /\ next.home = r.home /\ next.dep = r.dep
    BY <1>1, <1>3, AtIs DEF next
  <2> HIDE DEF next
  <2> QED
    BY <1>3, <2>1
<1>6. next = Off \/ (AtWork(next) /\ next.h = r.h /\ next.home = r.home /\ next.dep = r.dep)
  BY <1>3, <1>5
<1>7. stack' = stack /\ repo' = repo /\ attached' = attached /\ unseen' = unseen
        /\ refused' = refused /\ listed' = listed
  BY <1>2 DEF worldVars
<1>8. CASE Operates(setting)
  <2>1. h \in {"start", "stop", "save", "saveEmpty", "openLog"}
    BY <1>1, <1>2, <1>8, ViewNames DEF Operates
  <2>2. r.h \in Operating /\ hs \in SUBSET {"details"}
    BY <1>3, <1>4, <2>1 DEF Operating
  <2> QED
    BY <1>1, <1>2, <1>6, <1>7, <1>8, <2>2, SegmentOperates
<1>9. CASE ~Operates(setting)
  <2>1. \A s \in Slots : thread[s] = Off
    BY <1>2, <1>9
  <2>2. Of(AppOf[r.home])
    BY <2>1, OffIsNone DEF Of
  <2>3. Fits(setting, t, r.h, r.dep)
    BY <1>1, <1>2, <1>3, <1>9, SlotSorts DEF Fits, ForkSlots
  <2>4. hs \in SUBSET Forks /\ r.h \notin {"each", "deleteRepo"} /\ "deleteFromCatalog" \notin hs
    BY <1>1, <1>2, <1>3, <1>4, ViewNames DEF Forks
  <2>5. /\ Slotted'
        /\ \A s \in Slots : AtWork(thread'[s]) => AppOf[thread'[s].home] = AppOf[r.home]
        /\ Grows(Tried, Tried') /\ Tried'.quiet = Tried.quiet
        /\ "deleteRepo" \in hs => a \in Tried'.repos
        /\ "each" \in hs /\ setting.kind # "other" => DeploymentsOf(a) \subseteq Tried'.stacks
    <3>1. Goes(t, next, r, hs)
      BY <1>2 DEF Segment
    <3> QED
      BY <1>1, <1>2, <1>3, <1>6, <1>7, <1>9, <2>2, <2>3, <2>4, <3>1, SegmentGrows DEF Tries
  <2>6. ASSUME AtWork(next) PROVE Due(setting, Tried', next)
    <3>1. n # 0 /\ next.at # "answered" /\ next.step = 1 /\ next.h = h /\ next.home = shown
            /\ next.dep = shown
      BY <1>5, <2>6
    <3>2. h = "deleteAll" => setting.kind # "other" /\ hs = {"each"}
      <4>1. PlanIn(setting, "deleteAll") = DeleteAll(setting.kind)
        BY <1>1, PlansByName
      <4> QED
        BY <1>4, <3>1, <4>1 DEF DeleteAll, Handler
    <3>3. h = "deleteEnvironment" => a \in Tried'.repos
      BY <1>4, <2>5
    <3>4. h \in {"deleteEnvironment", "deleteProvider"} => a \in Tried'.quiet /\ shown = Lowest[a]
      <4>1. h \in {"deleteEnvironment", "deleteProvider"} => PlainView(setting) /\ ~known
        BY <1>1, <1>2, ViewNames DEF PlainView
      <4>2. h \in {"deleteEnvironment", "deleteProvider"} => a \in Tried.quiet /\ shown = Lowest[a]
        BY <1>1, <4>1 DEF Tries, Opened
      <4> QED
        BY <2>5, <4>2
    <3>5. h # "deleteFromCatalog"
      BY <1>1, <1>2, ViewNames
    <3> QED
      BY <2>5, <3>1, <3>2, <3>3, <3>4, <3>5 DEF Due
  <2> QED
    BY <1>1, <1>2, <1>3, <1>7, <1>9, <2>4, <2>5, <2>6, SegmentTries
<1> QED
  BY <1>8, <1>9

\* What the requests of the deletions are, that change something.
LEMMA ServedCalls ==
  ASSUME NEW set \in Settings, NEW r, r.h \in Handlers \ {"infraMount"},
         r.step \in 1 .. Len(PlanIn(set, r.h).steps), StepIn(set, r).call \in WorldCalls
  PROVE  LET m == StepIn(set, r).call
         IN  /\ r.h = "deleteProvider" => m \in DeletionCalls
             /\ r.h = "each" => m \in DeletionCalls \cup {"invokeLambda"}
             /\ r.h = "deleteRepo" => m = "deleteRepository"
             /\ m = "removeEntityByUid" => r.h = "deleteFromCatalog"
<1>1. set.kind \in Kinds /\ "sleep" \notin WorldCalls
  BY KindsAssumption DEF WorldCalls
<1>2. CASE r.h = "each"
  <2>1. PlanIn(set, r.h) = DeleteEach(set.kind)
    BY <1>2, PlansByName
  <2> DEFINE st == DeleteFromSingleProvider(set.kind, {})
  <2>2. \A i \in 1 .. Len(st) :
          st[i].call \in WorldCalls => st[i].call \in DeletionCalls \cup {"invokeLambda"}
    <3>1. {} \in SUBSET Effects
      OBVIOUS
    <3> QED
      BY <1>1, <3>1, DeletionIsLast
  <2>3. CASE set.kind = "other"
    BY <2>1, <2>3 DEF DeleteEach, Handler
  <2>4. CASE set.kind # "other"
    <3>1. PlanIn(set, r.h).steps = st
      BY <2>1, <2>4 DEF DeleteEach, Handler
    <3> HIDE DEF st
    <3>2. StepIn(set, r).call \in DeletionCalls \cup {"invokeLambda"}
      BY <2>2, <3>1 DEF StepIn
    <3> QED
      BY <1>2, <3>2 DEF DeletionCalls
  <2> QED
    BY <2>3, <2>4
<1>3. CASE r.h = "deleteRepo"
  <2>1. PlanIn(set, r.h) = DeleteRepo(CardsOf[set.view][1])
    BY <1>3, PlansByName
  <2>2. StepIn(set, r).call = "deleteRepository"
    BY <2>1, LastSteps DEF StepIn
  <2> QED
    BY <1>3, <2>2
<1>4. CASE r.h = "deleteProvider"
  <2>1. PlanIn(set, r.h) = DeleteProvider(set.kind)
    BY <1>4, PlansByName
  <2>2. StepIn(set, r).call \in DeletionCalls \/ StepIn(set, r).call = "sleep"
    BY <1>1, <2>1, DeleteProviderSteps DEF StepIn
  <2> QED
    BY <1>1, <1>4, <2>2 DEF DeletionCalls
<1>5. CASE r.h = "deleteAll"
  BY <1>1, <1>5, PlansByName, DeleteAllSteps DEF StepIn
<1>6. CASE r.h = "deleteEnvironment"
  BY <1>1, <1>6, PlansByName, DeleteEnvironmentSteps DEF StepIn
<1>7. CASE r.h = "deleteFromCatalog"
  BY <1>7
<1>8. CASE r.h \notin Major \cup {"each", "deleteRepo"}
  BY <1>8, MinorHandlers DEF MinorPlan, Minor, StepIn, Major
<1> QED
  BY <1>2, <1>3, <1>4, <1>5, <1>6, <1>7, <1>8 DEF Major

\* A request is served: what it deletes is gone before its handler knows, and an entity
\* leaves the catalog only when all of it has been tried.
LEMMA ServeTries ==
  ASSUME Inv, Tries, NEW t \in Slots, Serve(t)
  PROVE  Tries'
<1> DEFINE r == thread[t]
           m == StepOf(r).call
           a == AppOf[r.home]
           got == IF m = "getTaskDetails" THEN task[r.home] ELSE "ok"
           c == [[[r EXCEPT !.at = "answered"] EXCEPT !.to = None] EXCEPT !.got = got]
<1>1. /\ AtWork(r) /\ m \in WorldCalls /\ setting' = setting /\ refused' = refused
      /\ UNCHANGED contextVars /\ UNCHANGED pageVars
      /\ UpdateService(r) /\ DeleteStack(r) /\ DeleteEntity(r) /\ UpdateAttached(r)
      /\ thread' = [thread EXCEPT ![t] = c]
  BY DEF Serve, AtWork
<1>2. /\ setting \in Settings /\ r.h \in Handlers /\ r.home \in Deps /\ r.dep \in Deps
      /\ r.step \in 1 .. Len(PlanIn(setting, r.h).steps)
      /\ m = StepIn(setting, r).call /\ a \in Apps
      /\ Fits(setting, t, r.h, r.dep) /\ Due(setting, Tried, r)
  BY <1>1, UnderWayIs, DepsAssumption
<1>3. /\ thread \in [Slots -> Thread] /\ r \in Thread /\ stack \in [Deps -> {"there", "going"}]
      /\ thread[t] = r
  BY InvParts DEF WorldTypeOK
<1> HIDE DEF got
<1>4. c.at = "answered" /\ c.h = r.h /\ c.home = r.home /\ c.dep = r.dep /\ c.step = r.step
  <2> HIDE DEF r
  <2> QED
    BY <1>3 DEF Thread
<1>5. /\ stack' = IF m \in DeletionCalls THEN [stack EXCEPT ![r.dep] = "going"] ELSE stack
      /\ repo' = IF m = "deleteRepository" THEN repo \ {a} ELSE repo
      /\ listed' = IF m = "removeEntityByUid" THEN listed \ {a} ELSE listed
  BY <1>1 DEF DeleteStack, DeleteEntity, DeletionCalls
<1>6. \A b \in Apps : Quieter(Tried, Tried', b)
  BY <1>1 DEF UpdateAttached, Quieter, Tried
<1> HIDE DEF c, m, a, r
<1>7. \A s \in Slots : \/ s = t /\ thread[s] = r /\ thread'[s] = c
                       \/ thread'[s] = thread[s]
  BY <1>1, <1>3
<1>8. \A s \in Slots :
        /\ AtWork(thread'[s]) <=> AtWork(thread[s])
        /\ thread'[s].h = thread[s].h /\ thread'[s].home = thread[s].home
        /\ thread'[s].dep = thread[s].dep
  BY <1>1, <1>4, <1>7 DEF AtWork
<1>9. Slotted'
  <2> SUFFICES ASSUME NEW s \in Slots PROVE Placed(setting, s, thread'[s])
    BY <1>1 DEF Slotted
  <2>1. Placed(setting, s, thread[s])
    BY DEF Tries, Slotted
  <2>2. CASE thread'[s] = thread[s]
    BY <2>1, <2>2
  <2>3. CASE s = t /\ thread'[s] = c
    BY <1>1, <1>2, <1>4, <1>8, <2>3 DEF Placed, r
  <2> QED
    BY <1>7, <2>2, <2>3
<1>10. Grows(Tried, Tried')
  <2>1. \A d \in Deps : stack[d] = "going" => stack'[d] = "going"
    BY <1>2, <1>3, <1>5
  <2>2. \A d \in Deps : thread'[d].h = thread[d].h
    BY <1>8, SlotSorts
  <2>3. thread'["repo"].h = thread["repo"].h /\ thread'["repo"].home = thread["repo"].home
    BY <1>8, SlotSorts
  <2>4. repo' \subseteq repo /\ refused' = refused
    BY <1>1, <1>5
  <2>5. Tried.stacks \subseteq Tried'.stacks /\ Tried.gone \subseteq Tried'.gone
    BY <2>1, <2>2, <2>4 DEF Tried, Gone
  <2>6. Tried.repos \subseteq Tried'.repos /\ Tried.cleared \subseteq Tried'.cleared
    BY <2>3, <2>4 DEF Tried
  <2> QED
    BY <2>5, <2>6 DEF Grows
<1>11. CASE Operates(setting)
  <2>1. m # "removeEntityByUid"
    BY <1>2, <1>11, OperatingSteps DEF Fits
  <2> QED
    BY <1>1, <1>2, <1>5, <1>9, <1>11, <2>1, NothingLeaves DEF Tries
<1>12. CASE ~Operates(setting)
  <2>1. Alone'
    BY <1>1, <1>8 DEF Tries, Alone
  <2>2. r.h # "infraMount"
    BY <1>2, <1>12, WhereFits
  <2>3. /\ r.h = "deleteProvider" => m \in DeletionCalls
        /\ r.h = "deleteRepo" => m = "deleteRepository"
        /\ m = "removeEntityByUid" => r.h = "deleteFromCatalog"
    BY <1>1, <1>2, <2>2, ServedCalls
  <2>4. /\ m \in DeletionCalls => r.dep \in Tried'.gone
        /\ r.h = "deleteRepo" => a \in Tried'.cleared
    <3>1. m \in DeletionCalls => stack'[r.dep] = "going"
      BY <1>2, <1>3, <1>5
    <3>2. m = "deleteRepository" => a \notin repo'
      BY <1>5
    <3> QED
      BY <1>2, <2>3, <3>1, <3>2 DEF Tried, Gone
  <2>5. Dues'
    <3> SUFFICES ASSUME NEW s \in Slots, AtWork(thread'[s])
                 PROVE  Due(setting, Tried', thread'[s])
      BY <1>1 DEF Dues
    <3>1. Due(setting, Tried, thread[s]) /\ AppOf[thread[s].home] \in Apps
      BY <1>8, UnderWayIs, DepsAssumption
    <3>2. Due(setting, Tried', thread[s])
      BY <1>6, <1>10, <3>1, DueGrows
    <3>3. CASE thread'[s] = thread[s]
      BY <3>2, <3>3
    <3>4. CASE s = t /\ thread[s] = r /\ thread'[s] = c
      <4>1. StepIn(setting, c).call = m
        BY <1>2, <1>4 DEF StepIn
      <4> QED
        BY <1>4, <2>3, <2>4, <3>2, <3>4, <4>1 DEF Due, a
    <3> QED
      BY <1>7, <3>3, <3>4
  <2>6. m = "removeEntityByUid" => Whole(setting, Tried, a)
    BY <1>2, <2>3 DEF Due, a
  <2>7. Left'
    <3>1. \A b \in Apps \ listed' : b \notin listed \/ (b = a /\ m = "removeEntityByUid")
      BY <1>5
    <3>2. ASSUME NEW b \in setting.pages \ listed' PROVE Whole(setting, Tried', b)
      <4>1. b \in Apps
        BY <1>2, SettingsAssumption
      <4>2. Whole(setting, Tried, b)
        BY <2>6, <3>1, <3>2, <4>1 DEF Tries, Left
      <4> QED
        BY <1>6, <1>10, <4>1, <4>2, WholeGrows
    <3>3. ASSUME PlainView(setting), NEW b \in Apps \ listed' PROVE b \in Tried'.quiet
      <4>1. b \in Tried.quiet
        BY <2>6, <3>1, <3>3 DEF Tries, Left, Whole
      <4> QED
        BY <1>6, <4>1 DEF Quieter
    <3> QED
      BY <1>1, <1>12, <3>2, <3>3 DEF Left
  <2>8. Opened'
    <3> SUFFICES ASSUME PlainView(setting)
                 PROVE  /\ \A n \in Loads : load'[n].at \in {"unused", "shown"}
                        /\ shown' # None => /\ shown' = Lowest[AppOf[shown']]
                                            /\ known' \/ AppOf[shown'] \in Tried'.quiet
      BY <1>1 DEF Opened
    <3>1. load' = load /\ shown' = shown /\ known' = known
      BY <1>1 DEF contextVars, pageVars
    <3>2. shown # None => AppOf[shown] \in Apps
      BY InvParts, DepsAssumption DEF ContextTypeOK
    <3> QED
      BY <1>6, <3>1, <3>2 DEF Tries, Opened, Quieter
  <2> QED
    BY <1>9, <2>1, <2>5, <2>7, <2>8 DEF Tries
<1> QED
  BY <1>11, <1>12

\* What happens elsewhere, with the handlers as they are, may only take from the page that
\* is opened what nothing under way relies on.
LEMMA QuietMoves ==
  ASSUME Inv, Tries, setting' = setting, thread' = thread, listed' = listed,
         Grows(Tried, Tried'),
         \A s \in Slots : AtWork(thread[s]) => Quieter(Tried, Tried', AppOf[thread[s].home]),
         \A a \in Apps \ listed : Quieter(Tried, Tried', a),
         Opened'
  PROVE  Tries'
<1>1. setting.pages \subseteq Apps
  BY InvParts, SettingsAssumption
<1>2. Slotted' /\ Alone'
  BY DEF Tries, Slotted, Alone
<1>3. Dues'
  <2> SUFFICES ASSUME NEW s \in Slots, AtWork(thread[s]) PROVE Due(setting, Tried', thread[s])
    BY DEF Dues
  <2>1. Due(setting, Tried, thread[s])
    BY DEF Tries, Dues
  <2> QED
    BY <2>1, DueGrows
<1>4. Left'
  <2>1. ASSUME NEW a \in setting.pages \ listed PROVE Whole(setting, Tried', a)
    <3>1. Whole(setting, Tried, a)
      BY DEF Tries, Left
    <3> QED
      BY <1>1, <3>1, WholeGrows
  <2> QED
    BY <2>1 DEF Tries, Left, Quieter
<1> QED
  BY <1>2, <1>3, <1>4 DEF Tries

\* ... as when nothing of the world changes that a deletion is about.
LEMMA NothingMoves ==
  ASSUME Inv, Tries, setting' = setting, thread' = thread, listed' = listed, stack' = stack,
         repo' = repo, attached' = attached, unseen' = unseen, refused' = refused, Opened'
  PROVE  Tries'
<1>1. Tried' = Tried
  BY DEF Tried, Gone
<1> QED
  BY <1>1, QuietMoves DEF Grows, Quieter

\* A page that is left takes the requests of its cards along, which the pages that delete do
\* not have.
LEMMA UnmountedStays ==
  ASSUME Inv, Tries, setting' = setting, thread' = Unmounted
  PROVE  Slotted' /\ (~Operates(setting) => thread' = thread)
<1>1. thread \in [Slots -> Thread] /\ \A s \in Slots : Placed(setting, s, thread[s])
  BY InvParts DEF Tries, Slotted
<1>2. \A s \in Slots : thread'[s] = IF s \in MountSlots THEN Off ELSE thread[s]
  BY DEF Unmounted
<1>3. Slotted'
  BY <1>1, <1>2, OffIsNone DEF Slotted, Placed
<1>4. ASSUME ~Operates(setting) PROVE thread' = thread
  <2>1. \A s \in Slots : s \in MountSlots => thread[s] = Off
    BY <1>1, <1>4 DEF Placed, Fits
  <2>2. \A s \in Slots : thread'[s] = thread[s]
    BY <1>2, <2>1
  <2> QED
    BY <1>1, <2>2 DEF Unmounted
<1> QED
  BY <1>3, <1>4

\* A page is opened.
LEMMA OpenTries ==
  ASSUME Inv, Tries, NEW n \in Loads, NEW a \in Apps, Open(n, a)
  PROVE  Tries'
<1>1. /\ a \in listed /\ (OpenPage(n, a) \/ OpenPlainPage(n, a))
      /\ known' = (a \in attached) /\ thread' = Unmounted /\ setting' = setting
      /\ unseen' = (IF \E s \in Slots : thread[s].home \in DeploymentsOf(a) THEN unseen
                    ELSE unseen \ {a})
      /\ stack' = stack /\ repo' = repo /\ listed' = listed /\ attached' = attached
      /\ refused' = refused
  BY DEF Open
<1>2. setting \in Settings
  BY InvParts
<1>3. Slotted' /\ (~Operates(setting) => thread' = thread)
  BY <1>1, UnmountedStays
<1>4. CASE Operates(setting)
  BY <1>1, <1>2, <1>3, <1>4, NothingLeaves DEF Tries
<1>5. CASE ~Operates(setting)
  <2>1. Grows(Tried, Tried')
    BY <1>1, <1>3, <1>5 DEF Grows, Tried, Gone
  <2>2. \A b \in Apps \ {a} : Quieter(Tried, Tried', b)
    BY <1>1 DEF Quieter, Tried
  <2>3. ASSUME NEW s \in Slots, AtWork(thread[s])
        PROVE  Quieter(Tried, Tried', AppOf[thread[s].home])
    <3>1. thread[s].home \in Deps /\ AppOf[thread[s].home] \in Apps
      BY <2>3, UnderWayIs, DepsAssumption
    <3>2. CASE AppOf[thread[s].home] = a
      <4>1. unseen' = unseen
        BY <1>1, <3>1, <3>2 DEF DeploymentsOf
      <4> QED
        BY <1>1, <4>1 DEF Quieter, Tried
    <3> QED
      BY <2>2, <3>1, <3>2
  <2>4. Opened'
    <3> SUFFICES ASSUME PlainView(setting)
                 PROVE  /\ \A k \in Loads : load'[k].at \in {"unused", "shown"}
                        /\ shown' = Lowest[AppOf[shown']]
                        /\ known' \/ AppOf[shown'] \in Tried'.quiet
      BY <1>1 DEF Opened
    <3>1. OpenPlainPage(n, a)
      BY <1>1, <1>2, InTheSetting, ViewNames DEF OpenPage
    <3>2. shown' = Lowest[a] /\ AppOf[shown'] = a
      BY <3>1, DepsAssumption DEF OpenPlainPage
    <3>3. load' = [LoadsLeft EXCEPT ![n] = [at |-> "shown", app |-> a, dep |-> Lowest[a]]]
      BY <3>1 DEF OpenPlainPage, Begin
    <3>4. \A k \in Loads : LoadsLeft[k].at \in {"unused", "shown"}
      BY DEF Tries, Opened, LoadsLeft, Unused
    <3>5. \A k \in Loads : load'[k].at \in {"unused", "shown"}
      <4>1. \A k \in Loads : load'[k] = IF k = n THEN [at |-> "shown", app |-> a, dep |-> Lowest[a]]
                                        ELSE LoadsLeft[k]
        BY <3>3 DEF LoadsLeft
      <4> QED
        BY <3>4, <4>1
    <3>6. known' \/ a \in Tried'.quiet
      BY <1>1 DEF Tried
    <3> QED
      BY <3>2, <3>5, <3>6
  <2> QED
    BY <1>1, <1>3, <1>5, <2>1, <2>2, <2>3, <2>4, QuietMoves
<1> QED
  BY <1>4, <1>5

\* A page is left or loads again.
LEMMA PagesTries ==
  ASSUME Inv, Tries,
         \/ \E n \in NextLoad, d \in Deps : Switch(n, d)
         \/ \E n \in NextLoad : Reload(n)
         \/ Leave
  PROVE  Tries'
<1>1. setting \in Settings
  BY InvParts
<1>2. /\ setting' = setting /\ thread' = Unmounted
      /\ stack' = stack /\ repo' = repo /\ listed' = listed /\ attached' = attached
      /\ unseen' = unseen /\ refused' = refused
  BY DEF Switch, Reload, Leave, worldVars
<1>3. Slotted' /\ (~Operates(setting) => thread' = thread)
  BY <1>2, UnmountedStays
<1>4. CASE Operates(setting)
  BY <1>1, <1>2, <1>3, <1>4, NothingLeaves DEF Tries
<1>5. CASE ~Operates(setting)
  <2>1. Opened'
    <3>1. CASE Leave
      <4>1. load' = LoadsLeft /\ shown' = None
        BY <3>1 DEF Leave, LeavePage
      <4>2. PlainView(setting) => \A k \in Loads : LoadsLeft[k].at \in {"unused", "shown"}
        BY DEF Tries, Opened, LoadsLeft, Unused
      <4> QED
        BY <1>2, <4>1, <4>2 DEF Opened
    <3>2. CASE ~Leave
      <4>1. UsesHook
        BY <3>2 DEF Switch, Reload, Select, Refresh
      <4>2. ~PlainView(setting)
        BY <1>1, <4>1, InTheSetting, ViewNames
      <4> QED
        BY <1>2, <4>2 DEF Opened
    <3> QED
      BY <3>1, <3>2
  <2> QED
    BY <1>2, <1>3, <1>5, <2>1, NothingMoves
<1> QED
  BY <1>4, <1>5

\* A load goes on, fails, or ends with the handlers of the page's cards.
LEMMA LoadsTries ==
  ASSUME Inv, Tries, NEW n \in Loads, LoadGoesOn(n) \/ LoadStops(n)
  PROVE  Tries'
<1>1. setting \in Settings /\ thread \in [Slots -> Thread]
  BY InvParts
<1>2. /\ setting' = setting
      /\ stack' = stack /\ repo' = repo /\ listed' = listed /\ attached' = attached
      /\ unseen' = unseen /\ refused' = refused
  BY DEF LoadGoesOn, LoadStops, worldVars
<1>3. load[n].at \in {"catalog", "state"}
  BY DEF LoadGoesOn, LoadStops, CatalogAnswers, StateAnswers, LoadFails
<1>4. ~PlainView(setting)
  BY <1>3 DEF Tries, Opened
<1>5. Opened'
  BY <1>2, <1>4 DEF Opened
<1>6. CASE thread' = thread
  BY <1>2, <1>5, <1>6, NothingMoves
<1>7. CASE thread' # thread
  <2>1. PICK infra \in {"infraMount", "infraMissing"} :
          Mount(n, shown', MountHandlers(shown', infra))
    BY <1>7 DEF LoadGoesOn, LoadStops
  <2> DEFINE hs == MountHandlers(shown', infra)
             h(s) == CHOOSE x \in hs : Plan(x).card = s
             r(s) == Called(h(s), n, shown', shown')
  <2>2. thread' = [s \in Slots |-> IF \E x \in hs : Plan(x).card = s THEN At(r(s), 1, params')
                                   ELSE thread[s]]
    BY <2>1 DEF Mount
  <2>3. CASE Operates(setting)
    <3>1. hs \subseteq Operating /\ hs \subseteq Handlers
      BY HandlerNames DEF MountHandlers, Operating
    <3> HIDE DEF hs
    <3>2. Slotted'
      <4> SUFFICES ASSUME NEW s \in Slots PROVE Placed(setting, s, thread'[s])
        BY <1>2 DEF Slotted
      <4>1. CASE \E x \in hs : Plan(x).card = s
        <5>1. h(s) \in hs
          BY <4>1
        <5>2. r(s).h = h(s)
          BY CalledIs
        <5>3. thread'[s] = At(r(s), 1, params')
          BY <2>2, <4>1
        <5> DEFINE q == r(s)
        <5>4. q.h \in Operating /\ q.h \in Handlers /\ thread'[s] = At(q, 1, params')
          BY <3>1, <5>1, <5>2, <5>3
        <5> HIDE DEF q
        <5>5. thread'[s] = Off \/ (AtWork(thread'[s]) /\ thread'[s].h = q.h)
          <6>1. Len(PlanIn(setting, q.h).steps) \in Nat
            BY <1>1, <5>4, AtIs
          <6>2. 1 > Len(PlanIn(setting, q.h).steps) => At(q, 1, params') = Off
            BY <1>1, <5>4, AtIs
          <6>3. 1 <= Len(PlanIn(setting, q.h).steps)
                  => AtWork(At(q, 1, params')) /\ At(q, 1, params').h = q.h
            BY <1>1, <5>4, AtIs
          <6> QED
            BY <5>4, <6>1, <6>2, <6>3
        <5> QED
          BY <2>3, <5>4, <5>5, OffIsNone DEF Placed, Fits
      <4>2. CASE ~\E x \in hs : Plan(x).card = s
        BY <2>2, <4>2 DEF Tries, Slotted
      <4> QED
        BY <4>1, <4>2
    <3> QED
      BY <1>1, <1>2, <2>3, <3>2, NothingLeaves DEF Tries
  <2>4. CASE ~Operates(setting)
    <3>1. hs = {}
      BY <1>1, <1>4, <2>4, ViewNames DEF MountHandlers, Operates, PlainView, view
    <3> HIDE DEF hs
    <3>2. \A s \in Slots : thread'[s] = thread[s]
      BY <2>2, <3>1
    <3>3. thread' = thread
      BY <1>1, <2>2, <3>2
    <3> QED
      BY <1>7, <3>3
  <2> QED
    BY <2>3, <2>4
<1> QED
  BY <1>6, <1>7

\* What happens outside the portal.
LEMMA OutsideTries ==
  ASSUME Inv, Tries, (\E d \in Deps : Converge(d)) \/ (\E a \in Apps : AttachElsewhere(a))
  PROVE  Tries'
<1>1. CASE \E d \in Deps : Converge(d)
  <2>1. /\ setting' = setting /\ thread' = thread /\ listed' = listed /\ stack' = stack
        /\ repo' = repo /\ attached' = attached /\ unseen' = unseen /\ refused' = refused
        /\ UNCHANGED contextVars /\ UNCHANGED pageVars
    BY <1>1 DEF Converge
  <2>2. Tried' = Tried
    BY <2>1 DEF Tried, Gone
  <2>3. Opened'
    BY <2>1, <2>2 DEF Tries, Opened, contextVars, pageVars
  <2> QED
    BY <2>1, <2>3, NothingMoves
<1>2. CASE \E a \in Apps : AttachElsewhere(a)
  <2>1. PICK a \in Apps :
          /\ attached' = attached \cup {a} /\ unseen' = unseen \cup {a}
          /\ setting' = setting /\ thread' = thread /\ listed' = listed /\ stack' = stack
          /\ repo' = repo /\ refused' = refused
          /\ UNCHANGED contextVars /\ UNCHANGED pageVars
    BY <1>2 DEF AttachElsewhere
  <2>2. Grows(Tried, Tried')
    BY <2>1 DEF Grows, Tried, Gone
  <2>3. Tried.quiet \subseteq Tried'.quiet
    BY <2>1 DEF Tried
  <2>4. Opened'
    BY <2>1, <2>3 DEF Tries, Opened, contextVars, pageVars
  <2> QED
    BY <2>1, <2>2, <2>3, <2>4, QuietMoves DEF Quieter
<1> QED
  BY <1>1, <1>2

\* Nothing has been started or deleted in the beginning.
LEMMA InitTries ==
  ASSUME Init PROVE Tries
<1>1. thread = [s \in Slots |-> Off] /\ setting \in Settings /\ listed = setting.pages
        /\ load = [n \in Loads |-> Unused] /\ shown = None /\ attached \subseteq setting.pages
  BY DEF Init, ContextInit
<1>2. \A s \in Slots : thread[s] = Off
  BY <1>1
<1>3. Slotted /\ Alone /\ Dues
  BY <1>2, OffIsNone DEF Slotted, Placed, Alone, Dues
<1>4. Left
  BY <1>1 DEF Left, Tried
<1>5. Opened
  BY <1>1 DEF Opened, Unused
<1> QED
  BY <1>3, <1>4, <1>5 DEF Tries

\* No step leaves something untried of what has left the catalog.
LEMMA StepTries ==
  ASSUME Inv, Tries, [Next]_vars PROVE Tries'
<1>1. CASE Next
  <2>1. ASSUME NEW n \in NextLoad, NEW a \in Apps, Open(n, a) PROVE Tries'
    BY <2>1, InvParts, NewLoad, OpenTries
  <2>2. CASE \/ \E n \in NextLoad, d \in Deps : Switch(n, d)
             \/ \E n \in NextLoad : Reload(n)
             \/ Leave
    BY <2>2, PagesTries
  <2>3. ASSUME NEW n \in Loads, LoadGoesOn(n) \/ LoadStops(n) PROVE Tries'
    BY <2>3, LoadsTries
  <2>4. ASSUME NEW t \in setting.clicks, NEW h \in Handlers, Click(t, h) PROVE Tries'
    BY <2>4, ClickTries
  <2>5. ASSUME NEW t \in Slots, Serve(t) \/ Fail(t) \/ Wake(t) \/ Continue(t) PROVE Tries'
    BY <2>5, ServeTries, FailTries, WakeTries, ContinueTries
  <2>6. CASE (\E d \in Deps : Converge(d)) \/ (\E a \in Apps : AttachElsewhere(a))
    BY <2>6, OutsideTries
  <2> QED
    BY <1>1, <2>1, <2>2, <2>3, <2>4, <2>5, <2>6 DEF Next
<1>2. CASE UNCHANGED vars
  <2>1. /\ setting' = setting /\ thread' = thread /\ UNCHANGED worldVars
        /\ UNCHANGED contextVars /\ UNCHANGED pageVars
    BY <1>2 DEF vars
  <2>2. Tried' = Tried
    BY <2>1 DEF Tried, Gone, worldVars
  <2>3. Opened'
    BY <2>1, <2>2 DEF Tries, Opened, contextVars, pageVars
  <2> QED
    BY <2>1, <2>3, NothingMoves DEF worldVars
<1> QED
  BY <1>1, <1>2

-------------------------------------------------------------------------------
(* The Kubernetes objects of an application go before its deployments. *)

InClusters(set) == set.view = "management" /\ OnEks(set.kind)

\* The handlers of a page of an application that delete a deployment of it.
Deleters == {"deleteOne", "each"}

\* What they have asked for when they are at their step.
Swept(w, r) ==
  AtWork(r) =>
    /\ AppOf[r.dep] = AppOf[r.home]
    /\ r.h \in Deleters =>
         /\ r.at = "answered" => r.step > 2
         /\ r.step > 3 \/ (r.step = 3 /\ r.at = "answered") => w[r.home] # "there"

Sweeps ==
  InClusters(setting) => WorkloadFirst /\ \A s \in Slots : Swept(workload, thread[s])

\* The steps of these handlers.
LEMMA ClusterSteps ==
  ASSUME NEW set \in Settings, InClusters(set), NEW h \in Deleters
  PROVE  LET st == PlanIn(set, h).steps
         IN  /\ Len(st) = 4
             /\ st[1].call = "getEKSAppManifests" /\ st[1].leapOn = "none" /\ st[1].leap = 2
             /\ st[2].call = "getSSMParameter" /\ st[2].leap = 0
             /\ st[3].call = "invokeLambda" /\ st[3].leap = 0
             /\ st[4].call \in DeletionCalls
<1> DEFINE fx == IF h = "each" THEN {} ELSE {"idle"}
           e1 == Leap(Catch(Await("getEKSAppManifests"), {"idle"}), "none", 2)
           e2 == Catch(Await("getSSMParameter"), {"idle"})
           e3 == Catch(Await("invokeLambda"), {"idle"})
           m == IF ByTerraform(set.kind) THEN "deleteTFProvider" ELSE "deleteStack"
           e4 == Catch(Then(Own(Await(m)), fx), {"idle"})
           st == PlanIn(set, h).steps
<1>1. set.kind # "other" /\ OnEks(set.kind)
  BY DEF InClusters, OnEks
<1>2. st = DeleteFromSingleProvider(set.kind, fx)
  BY <1>1, PlansByName DEF Deleters, DeleteEach, DeleteOne, Handler
<1>3. st = <<e1, e2, e3>> \o <<e4>>
  BY <1>1, <1>2 DEF DeleteFromSingleProvider, DeleteK8sApp
<1>4. e1.call = "getEKSAppManifests" /\ e1.leapOn = "none" /\ e1.leap = 2
  BY DEF Leap, Catch, Await
<1>5. e2.call = "getSSMParameter" /\ e2.leap = 0 /\ e3.call = "invokeLambda" /\ e3.leap = 0
  BY DEF Catch, Await
<1>6. e4.call \in DeletionCalls
  BY DEF Catch, Then, Own, Await, DeletionCalls
<1> HIDE DEF e1, e2, e3, e4, st
<1>7. Len(st) = 4 /\ st[1] = e1 /\ st[2] = e2 /\ st[3] = e3 /\ st[4] = e4
  <2>1. <<e1, e2, e3>> \in Seq({e1, e2, e3, e4}) /\ <<e4>> \in Seq({e1, e2, e3, e4})
    OBVIOUS
  <2>2. Len(<<e1, e2, e3>>) = 3 /\ Len(<<e4>>) = 1
    OBVIOUS
  <2> QED
    BY <1>3, <2>1, <2>2, ConcatProperties
<1> QED
  BY <1>4, <1>5, <1>6, <1>7 DEF st

\* No other handler of the page makes the call that deletes a deployment.
LEMMA OnlyDeleters ==
  ASSUME NEW set \in Settings, set.view = "management", NEW s \in Slots,
         NEW r, r.h \in Handlers, Fits(set, s, r.h, r.dep), r.h \notin Deleters,
         r.step \in 1 .. Len(PlanIn(set, r.h).steps)
  PROVE  StepIn(set, r).call \notin DeletionCalls
<1>1. set.kind \in Kinds /\ ~Operates(set)
  BY KindsAssumption DEF Operates
<1>2. r.h \in {"promote", "bind", "unbind", "deleteAll", "deleteRepo", "deleteSecret",
               "deleteFromCatalog", "attach", "detach"}
  BY <1>1, SlotSorts, ViewNames DEF Fits, ForkSlots, Deleters
<1>3. CASE r.h = "deleteAll"
  BY <1>1, <1>3, PlansByName, DeleteAllSteps DEF StepIn, DeletionCalls
<1>4. CASE r.h = "deleteRepo"
  <2>1. PlanIn(set, r.h) = DeleteRepo(CardsOf[set.view][1])
    BY <1>4, PlansByName
  <2> QED
    BY <2>1, LastSteps DEF StepIn, DeletionCalls
<1>5. CASE r.h = "deleteFromCatalog"
  <2>1. PlanIn(set, r.h).steps = <<Await("getLocationByRef"), Await("removeEntityByUid")>>
    BY <1>5, PlansByName DEF DeleteFromCatalog, Handler
  <2>2. Await("getLocationByRef").call \notin DeletionCalls
          /\ Await("removeEntityByUid").call \notin DeletionCalls
    BY DEF Await, DeletionCalls
  <2> HIDE DEF DeletionCalls
  <2> QED
    BY <2>1, <2>2 DEF StepIn
<1>6. CASE r.h = "promote"
  <2> DEFINE s1 == Await("getEntities")
             s2 == Await("getEntityByRef")
             s3 == Own(Await("getSSMParameter"))
             s4 == Catch(Then(Await("promoteApp"), {"idle"}), {"idle"})
  <2>1. PlanIn(set, r.h).steps = <<s1, s2, s3, s4>>
    BY <1>6, PlansByName DEF OtherPlans, Promote, Handler
  <2>2. s1.call \notin DeletionCalls /\ s2.call \notin DeletionCalls
    BY DEF Await, DeletionCalls
  <2>3. s3.call \notin DeletionCalls
    BY DEF Await, Own, DeletionCalls
  <2>4. s4.call \notin DeletionCalls
    BY DEF Await, Catch, Then, DeletionCalls
  <2> HIDE DEF s1, s2, s3, s4
  <2> QED
    BY <2>1, <2>2, <2>3, <2>4 DEF StepIn
<1>7. CASE r.h \in {"bind", "unbind", "deleteSecret", "attach", "detach"}
  <2> DEFINE b == Catch(Then(Await("bindResource"), {"idle"}), {"idle"})
             u == Catch(Then(Await("unBindResource"), {"idle"}), {"idle"})
             d == Catch(Await("deletePlatformSecret"), {"idle"})
             p == Own(Await("updateProviderToEnvironment"))
  <2>1. PlanIn(set, r.h).steps \in {<<b>>, <<u>>, <<d>>, <<p>>}
    <3>1. /\ OtherPlans["bind"].steps = <<b>> /\ OtherPlans["unbind"].steps = <<u>>
          /\ OtherPlans["deleteSecret"].steps = <<d>>
          /\ OtherPlans["attach"].steps = <<p>> /\ OtherPlans["detach"].steps = <<p>>
          /\ {"bind", "unbind", "deleteSecret", "attach", "detach"} \subseteq DOMAIN OtherPlans
      BY DEF OtherPlans, Bind, Unbind, DeleteSecret, UpdateProvider, Handler
    <3> HIDE DEF b, u, d, p
    <3> QED
      BY <1>7, <3>1, PlansByName
  <2>2. \A e \in {b, u, d, p} : e.call \notin DeletionCalls
    BY DEF Await, Own, Catch, Then, DeletionCalls
  <2> HIDE DEF b, u, d, p
  <2> QED
    BY <2>1, <2>2 DEF StepIn
<1> QED
  BY <1>2, <1>3, <1>4, <1>5, <1>6, <1>7

\* What a handler does between two awaits keeps what the others have asked for.
LEMMA SegmentSweeps ==
  ASSUME setting \in Settings, setting' = setting, InClusters(setting), Sweeps,
         NEW t \in Slots, NEW next, NEW r, NEW hs \in SUBSET Forks, Goes(t, next, r, hs),
         stack' = stack, workload' = workload, Swept(workload, next)
  PROVE  Sweeps'
<1>1. ASSUME NEW s \in Slots PROVE Swept(workload, thread'[s])
  <2>1. hs \in SUBSET Handlers
    BY HandlerNames DEF Forks
  <2>2. CASE s = t /\ thread'[s] = next
    BY <2>2
  <2>3. CASE thread'[s] = thread[s]
    BY <2>3 DEF Sweeps
  <2>4. CASE thread'[s] = Off
    BY <2>4, OffIsNone DEF Swept
  <2>5. ASSUME NEW h \in hs, s \in SlotsOf(h, AppOf[r.home]), Started(thread'[s], s, h, r.home)
        PROVE  Swept(workload, thread'[s])
    <3>1. AppOf[thread'[s].dep] = AppOf[thread'[s].home]
      <4>1. s \in Deps => h = "each"
        BY <2>5, SlotsOfForks
      <4>2. s \in Deps => AppOf[s] = AppOf[r.home]
        BY <2>5, <4>1 DEF SlotsOf, DeploymentsOf
      <4> QED
        BY <2>5, <4>2 DEF Started
    <3> QED
      BY <2>5, <3>1 DEF Started, Swept
  <2> QED
    BY <2>1, <2>2, <2>3, <2>4, <2>5, SlotsAfter
<1>2. WorkloadFirst'
  BY DEF Sweeps, WorkloadFirst, Managed, view, kind
<1> QED
  BY <1>1, <1>2 DEF Sweeps

\* A handler goes on, or polls again.
LEMMA ContinueSweeps ==
  ASSUME Inv, Tries, Sweeps, InClusters(setting), NEW t \in Slots, Continue(t)
  PROVE  Sweeps'
<1> DEFINE r == thread[t]
           st == StepOf(r)
           n == Len(PlanIn(setting, r.h).steps)
<1>1. /\ AtWork(r) /\ setting' = setting /\ stack' = stack /\ workload' = workload
      /\ st.call \in WorldCalls => r.at = "answered"
  BY DEF Continue, PollAgain, GoOn, Answers, AtWork, worldVars
<1>2. /\ setting \in Settings /\ r.h \in Handlers /\ r.step \in 1 .. n /\ n \in Nat
      /\ st = StepIn(setting, r) /\ st \in Step /\ Fits(setting, t, r.h, r.dep)
  BY <1>1, UnderWayIs
<1>3. Swept(workload, r)
  BY DEF Sweeps
<1>4. \A k \in Nat \ {0} :
        LET a == At(r, k, params)
        IN  /\ k > n => ~AtWork(a)
            /\ k <= n => /\ AtWork(a) /\ a.at # "answered" /\ a.step = k
                         /\ a.h = r.h /\ a.home = r.home /\ a.dep = r.dep
  BY <1>2, AtIs
<1>5. CASE PollAgain(t)
  <2> DEFINE next == At(r, r.step, params)
  <2>1. Goes(t, next, r, {})
    BY <1>5 DEF PollAgain, Segment
  <2>2. Swept(workload, next)
    <3>1. r.step \in Nat \ {0} /\ r.step <= n
      BY <1>2
    <3>2. /\ next.at # "answered" /\ next.step = r.step
          /\ next.h = r.h /\ next.home = r.home /\ next.dep = r.dep
      BY <1>4, <3>1
    <3> HIDE DEF next, r
    <3> QED
      BY <1>1, <1>2, <1>3, <3>2 DEF Swept
  <2> HIDE DEF next
  <2> QED
    BY <1>1, <1>2, <2>1, <2>2, SegmentSweeps
<1>6. CASE GoOn(t)
  <2>1. PICK got \in Answers(r) :
          Segment(t, At(r, r.step + 1 + (IF got = st.leapOn THEN st.leap ELSE 0), params),
                  r, st.then, st.forks)
    BY <1>6 DEF GoOn
  <2> DEFINE k == r.step + 1 + (IF got = st.leapOn THEN st.leap ELSE 0)
             next == At(r, k, params)
  <2>2. Goes(t, next, r, st.forks)
    BY <2>1 DEF Segment
  <2>3. st.forks \in SUBSET Forks
    <3>1. r.h # "infraMount"
      BY <1>2, WhereFits DEF InClusters, Operates
    <3> QED
      BY <1>2, <3>1, StartedBySteps
  <2>4. got = "none" /\ st.call = "getEKSAppManifests" /\ r.at # "answered" =>
          workload[r.home] # "there"
    BY <2>1 DEF Answers
  <2>5. r.step \in Nat /\ st.leap \in Nat /\ k \in Nat \ {0}
    <3>1. r.step \in Nat /\ st.leap \in Nat
      <4>1. r.step \in Nat
        BY <1>2
      <4> HIDE DEF st
      <4>2. st.leap \in Nat
        BY <1>2 DEF Step
      <4> QED
        BY <4>1, <4>2
    <3> HIDE DEF st, r
    <3> QED
      BY <3>1
  <2>6. r.h \in Deleters =>
          /\ n = 4
          /\ r.step = 1 => st.call = "getEKSAppManifests" /\ st.leapOn = "none" /\ st.leap = 2
          /\ r.step = 2 => st.leap = 0
          /\ r.step = 3 => st.leap = 0 /\ st.call \in WorldCalls
    BY <1>2, ClusterSteps DEF StepIn, WorldCalls
  <2>7. Swept(workload, next)
    <3>1. CASE k > n
      BY <1>4, <2>5, <3>1 DEF Swept
    <3>2. CASE k <= n
      <4>1. /\ next.at # "answered" /\ next.step = k
            /\ next.h = r.h /\ next.home = r.home /\ next.dep = r.dep
        BY <1>4, <2>5, <3>2
      <4>2. AppOf[r.dep] = AppOf[r.home]
        BY <1>1, <1>3 DEF Swept
      <4>3. ASSUME r.h \in Deleters, k > 3 PROVE workload[r.home] # "there"
        <5>1. r.step \in {1, 2, 3}
          <6>1. n = 4 /\ r.step \in 1 .. 4 /\ r.step + 1 <= k
            <7> HIDE DEF r, st, n
            <7> QED
              BY <1>2, <2>5, <2>6, <4>3
          <6>2. k <= 4 /\ k \in Nat
            BY <2>5, <3>2, <6>1
          <6> HIDE DEF k, r, n
          <6> QED
            BY <6>1, <6>2
        <5>2. r.step # 2
          <6> HIDE DEF r, st
          <6> QED
            BY <2>6, <4>3
        <5>3. CASE r.step = 3
          BY <1>1, <1>3, <2>6, <4>3, <5>3 DEF Swept
        <5>4. CASE r.step = 1
          <6>1. r.at # "answered"
            BY <1>1, <1>3, <4>3, <5>4 DEF Swept
          <6>2. got = "none"
            <7> HIDE DEF r, st
            <7> QED
              BY <2>6, <4>3, <5>4
          <6> QED
            BY <2>4, <2>6, <4>3, <5>4, <6>1, <6>2
        <5> QED
          BY <5>1, <5>2, <5>3, <5>4
      <4> HIDE DEF next, k, r
      <4> QED
        BY <4>1, <4>2, <4>3 DEF Swept
    <3> QED
      <4> HIDE DEF k
      <4> QED
        BY <1>2, <2>5, <3>1, <3>2
  <2> HIDE DEF next
  <2> QED
    BY <1>1, <1>2, <2>2, <2>3, <2>7, SegmentSweeps
<1> QED
  BY <1>5, <1>6 DEF Continue

\* A request fails, or a pause is over.
LEMMA EndsSweep ==
  ASSUME Inv, Tries, Sweeps, InClusters(setting), NEW t \in Slots, Fail(t) \/ Wake(t)
  PROVE  Sweeps'
<1> DEFINE r == thread[t]
           st == StepOf(r)
           n == Len(PlanIn(setting, r.h).steps)
<1>1. AtWork(r) /\ setting' = setting /\ stack' = stack /\ workload' = workload
  BY DEF Fail, Wake, AtWork, worldVars
<1>2. /\ setting \in Settings /\ r.h \in Handlers /\ r.step \in 1 .. n /\ n \in Nat
      /\ st = StepIn(setting, r) /\ Fits(setting, t, r.h, r.dep)
  BY <1>1, UnderWayIs
<1>3. Swept(workload, r)
  BY DEF Sweeps
<1>4. CASE Fail(t)
  <2>1. Goes(t, Off, r, {})
    BY <1>4 DEF Fail, Segment
  <2>2. Swept(workload, Off)
    BY OffIsNone DEF Swept
  <2> QED
    BY <1>1, <1>2, <2>1, <2>2, SegmentSweeps
<1>5. CASE Wake(t) /\ st.call = "sleep"
  <2> DEFINE next == At(r, r.step + 1, params)
  <2>1. Goes(t, next, r, st.forks)
    BY <1>5 DEF Wake, Segment
  <2>2. st.forks \in SUBSET Forks
    <3>1. r.h # "infraMount"
      BY <1>2, WhereFits DEF InClusters, Operates
    <3> QED
      BY <1>2, <3>1, StartedBySteps
  <2>3. r.h \notin Deleters
    <3> SUFFICES ASSUME r.h \in Deleters PROVE FALSE
      OBVIOUS
    <3>1. r.step \in {1, 2, 3, 4}
      <4>1. n = 4
        BY <1>2, ClusterSteps
      <4> HIDE DEF n, r
      <4> QED
        BY <1>2, <4>1
    <3> QED
      BY <1>2, <1>5, <3>1, ClusterSteps DEF StepIn, DeletionCalls
  <2>4. AtWork(next) => next.h = r.h /\ next.home = r.home /\ next.dep = r.dep
    <3>1. r.step + 1 \in Nat \ {0}
      BY <1>2
    <3> QED
      BY <1>2, <3>1, AtIs
  <2>5. Swept(workload, next)
    <3> HIDE DEF next, r
    <3> QED
      BY <1>1, <1>3, <2>3, <2>4 DEF Swept
  <2> HIDE DEF next
  <2> QED
    BY <1>1, <1>2, <2>1, <2>2, <2>5, SegmentSweeps
<1>6. CASE Wake(t) /\ st.call # "sleep"
  <2> DEFINE a == [[r EXCEPT !.at = "sent"] EXCEPT !.to = Named(st, r, params)]
  <2>1. thread' = [thread EXCEPT ![t] = a] /\ r.at = "asleep"
    BY <1>6 DEF Wake
  <2>2. thread \in [Slots -> Thread] /\ r \in Thread
    BY InvParts
  <2>3. a.at = "sent" /\ a.h = r.h /\ a.home = r.home /\ a.dep = r.dep /\ a.step = r.step
    <3> HIDE DEF r, st
    <3> QED
      BY <2>2 DEF Thread
  <2>4. Swept(workload, a)
    <3> HIDE DEF a, r
    <3> QED
      BY <1>1, <1>3, <2>1, <2>3 DEF Swept
  <2> HIDE DEF a
  <2>5. \A s \in Slots : thread'[s] = thread[s] \/ thread'[s] = a
    BY <2>1, <2>2
  <2>6. \A s \in Slots : Swept(workload', thread'[s])
    BY <1>1, <2>4, <2>5 DEF Sweeps
  <2>7. WorkloadFirst'
    BY <1>1 DEF Sweeps, WorkloadFirst, Managed, view, kind
  <2> QED
    BY <2>6, <2>7 DEF Sweeps
<1> QED
  BY <1>4, <1>5, <1>6

\* A click finds no handler under way.
LEMMA ClickSweeps ==
  ASSUME Inv, Tries, Sweeps, InClusters(setting),
         NEW t \in setting.clicks, NEW h \in Handlers, Click(t, h)
  PROVE  Sweeps'
<1> DEFINE r == Called(h, current, shown, shown)
           next == At(r, 1, params)
           hs == Plan(h).forks
<1>1. setting \in Settings /\ t \in Slots
  BY InvParts, KindsAssumption, SlotSorts
<1>2. /\ h \in HandlersOf(setting.view) /\ Goes(t, next, r, hs) /\ setting' = setting
      /\ stack' = stack /\ workload' = workload
  BY DEF Click, Offered, Segment, worldVars, view
<1>3. r.h = h /\ r.home = shown /\ r.dep = shown
  BY CalledIs
<1>4. hs \in SUBSET Forks
  BY <1>1, <1>2, FirstForks, InTheSetting DEF Forks
<1>5. Swept(workload, next)
  <2> HIDE DEF r
  <2>1. AtWork(next) => /\ next.at # "answered" /\ next.step = 1
                        /\ next.home = r.home /\ next.dep = r.dep
    BY <1>1, <1>3, AtIs
  <2> HIDE DEF next
  <2> QED
    BY <1>3, <2>1 DEF Swept
<1> HIDE DEF next, hs, r
<1> QED
  BY <1>1, <1>2, <1>4, <1>5, SegmentSweeps

\* A request is served: the deletion of a deployment comes after that of the objects.
LEMMA ServeSweeps ==
  ASSUME Inv, Tries, Sweeps, InClusters(setting), NEW t \in Slots, Serve(t)
  PROVE  Sweeps'
<1> DEFINE r == thread[t]
           m == StepOf(r).call
           got == IF m = "getTaskDetails" THEN task[r.home] ELSE "ok"
           c == [[[r EXCEPT !.at = "answered"] EXCEPT !.to = None] EXCEPT !.got = got]
<1>1. /\ r.at = "sent" /\ AtWork(r) /\ m \in WorldCalls /\ setting' = setting
      /\ DeleteStack(r) /\ DeleteWorkload(r) /\ thread' = [thread EXCEPT ![t] = c]
  BY DEF Serve, AtWork
<1>2. /\ setting \in Settings /\ r.h \in Handlers /\ r.home \in Deps /\ r.dep \in Deps
      /\ r.step \in 1 .. Len(PlanIn(setting, r.h).steps)
      /\ m = StepIn(setting, r).call /\ Fits(setting, t, r.h, r.dep)
  BY <1>1, UnderWayIs
<1>3. /\ thread \in [Slots -> Thread] /\ r \in Thread /\ stack \in [Deps -> {"there", "going"}]
      /\ workload \in [Deps -> {"none", "there", "going"}]
  BY InvParts DEF WorldTypeOK
<1> HIDE DEF got
<1>4. c.at = "answered" /\ c.h = r.h /\ c.home = r.home /\ c.dep = r.dep /\ c.step = r.step
  <2> HIDE DEF r
  <2> QED
    BY <1>3 DEF Thread
<1>5. /\ stack' = IF m \in DeletionCalls THEN [stack EXCEPT ![r.dep] = "going"] ELSE stack
      /\ workload' = IF m = "invokeLambda" THEN [workload EXCEPT ![r.home] = "going"] ELSE workload
  BY <1>1 DEF DeleteStack, DeleteWorkload, DeletionCalls
<1>6. Swept(workload, r)
  BY DEF Sweeps
<1>7. r.h \in Deleters => \/ r.step = 3 /\ m = "invokeLambda"
                          \/ r.step = 4 /\ m \in DeletionCalls
  <2> SUFFICES ASSUME r.h \in Deleters
               PROVE  \/ r.step = 3 /\ m = "invokeLambda"
                      \/ r.step = 4 /\ m \in DeletionCalls
    OBVIOUS
  <2>1. r.step \in {1, 2, 3, 4}
    <3> DEFINE n == Len(PlanIn(setting, r.h).steps)
    <3>1. n = 4 /\ r.step \in 1 .. n
      BY <1>2, ClusterSteps
    <3> HIDE DEF n, r
    <3> QED
      BY <3>1
  <2>2. m \notin {"getEKSAppManifests", "getSSMParameter"}
    BY <1>1 DEF WorldCalls
  <2> QED
    BY <1>2, <2>1, <2>2, ClusterSteps DEF StepIn
<1>8. m \in DeletionCalls => r.h \in Deleters
  BY <1>2, OnlyDeleters DEF InClusters
<1>9. \A s \in Slots : thread'[s] = thread[s] \/ thread'[s] = c
  BY <1>1, <1>3
<1> HIDE DEF c, m, r
<1>10. \A d \in Deps : workload[d] # "there" => workload'[d] # "there"
  BY <1>2, <1>3, <1>5
<1>11. ASSUME NEW s \in Slots PROVE Swept(workload', thread'[s])
  <2>1. CASE thread'[s] = thread[s]
    <3>1. Swept(workload, thread[s])
      BY DEF Sweeps
    <3>2. AtWork(thread[s]) => thread[s].home \in Deps
      BY UnderWayIs
    <3> QED
      BY <1>10, <2>1, <3>1, <3>2 DEF Swept
  <2>2. CASE thread'[s] = c
    <3>1. r.step = 3 /\ m = "invokeLambda" => workload'[r.home] # "there"
      BY <1>2, <1>3, <1>5
    <3>2. r.h \in Deleters /\ r.step = 4 => workload'[r.home] # "there"
      BY <1>1, <1>2, <1>6, <1>10 DEF Swept
    <3> QED
      BY <1>1, <1>4, <1>6, <1>7, <2>2, <3>1, <3>2 DEF Swept
  <2> QED
    BY <1>9, <2>1, <2>2
<1>12. ASSUME NEW d \in Deps, Managed(d), stack'[d] = "going"
       PROVE  \E e \in DeploymentsOf(AppOf[d]) : workload'[e] # "there"
  <2>1. CASE stack[d] = "going"
    <3>1. PICK e \in DeploymentsOf(AppOf[d]) : workload[e] # "there"
      BY <1>12, <2>1 DEF Sweeps, WorkloadFirst
    <3>2. e \in Deps
      BY DEF DeploymentsOf
    <3> QED
      BY <1>10, <3>1, <3>2
  <2>2. CASE stack[d] # "going"
    <3>1. m \in DeletionCalls /\ d = r.dep
      BY <1>2, <1>3, <1>5, <1>12, <2>2
    <3>2. r.h \in Deleters /\ r.step = 4
      BY <1>7, <1>8, <3>1 DEF DeletionCalls
    <3>3. AppOf[d] = AppOf[r.home] /\ workload[r.home] # "there"
      BY <1>1, <1>6, <3>1, <3>2 DEF Swept
    <3> QED
      BY <1>2, <1>10, <3>3 DEF DeploymentsOf
  <2> QED
    BY <2>1, <2>2
<1>13. WorkloadFirst'
  BY <1>1, <1>12 DEF WorkloadFirst, Managed, view, kind
<1> QED
  BY <1>11, <1>13 DEF Sweeps

\* The other steps ask for nothing.
LEMMA OthersSweep ==
  ASSUME Inv, Tries, Sweeps, setting' = setting, stack' = stack, workload' = workload,
         InClusters(setting) => thread' = thread
  PROVE  Sweeps'
BY DEF Sweeps, WorkloadFirst, Managed, view, kind

\* No step lets a deployment go before the objects.
LEMMA StepSweeps ==
  ASSUME Inv, Tries, Sweeps, [Next]_vars PROVE Sweeps'
<1>1. ~Operates(setting) <=> setting.view \in {"management", "environment", "provider"}
  BY InvParts, ViewNames
<1>2. setting' = setting
  BY DEF Next, Open, Switch, Reload, LoadGoesOn, LoadStops, Leave, Click, Serve, Fail, Wake,
         Continue, PollAgain, GoOn, Converge, AttachElsewhere, vars
<1>3. CASE \/ \E n \in NextLoad, a \in Apps : Open(n, a)
           \/ \E n \in NextLoad, d \in Deps : Switch(n, d)
           \/ \E n \in NextLoad : Reload(n)
           \/ Leave
  <2>1. thread' = Unmounted /\ stack' = stack /\ workload' = workload
    BY <1>3 DEF Open, Switch, Reload, Leave, worldVars
  <2> QED
    BY <1>1, <1>2, <2>1, UnmountedStays, OthersSweep DEF InClusters
<1>4. ASSUME NEW n \in Loads, LoadGoesOn(n) \/ LoadStops(n) PROVE Sweeps'
  <2>1. stack' = stack /\ workload' = workload
    BY <1>4 DEF LoadGoesOn, LoadStops, worldVars
  <2>2. ASSUME InClusters(setting) PROVE thread' = thread
    <3>1. MountHandlers(shown', "infraMount") = {} /\ MountHandlers(shown', "infraMissing") = {}
      BY <2>2 DEF MountHandlers, InClusters, view
    <3>2. thread' = thread \/ thread' = [s \in Slots |-> thread[s]]
      BY <1>4, <3>1 DEF LoadGoesOn, LoadStops, Mount
    <3> QED
      BY <3>2, InvParts
  <2> QED
    BY <1>2, <2>1, <2>2, OthersSweep
<1>5. ASSUME NEW t \in setting.clicks, NEW h \in Handlers, Click(t, h) PROVE Sweeps'
  <2>1. ~InClusters(setting) => Sweeps'
    BY <1>2 DEF Sweeps
  <2> QED
    BY <1>5, <2>1, ClickSweeps
<1>6. ASSUME NEW t \in Slots, Serve(t) \/ Fail(t) \/ Wake(t) \/ Continue(t) PROVE Sweeps'
  <2>1. ~InClusters(setting) => Sweeps'
    BY <1>2 DEF Sweeps
  <2> QED
    BY <1>6, <2>1, ServeSweeps, EndsSweep, ContinueSweeps
<1>7. CASE (\E d \in Deps : Converge(d)) \/ (\E a \in Apps : AttachElsewhere(a)) \/ UNCHANGED vars
  <2>1. thread' = thread /\ stack' = stack /\ workload' = workload
    BY <1>7 DEF Converge, AttachElsewhere, vars, worldVars
  <2> QED
    BY <1>2, <2>1, OthersSweep
<1> QED
  BY <1>3, <1>4, <1>5, <1>6, <1>7 DEF Next

-------------------------------------------------------------------------------
(* The theorem. *)

\* What is tried, for the slots, is what the property asks of the handlers under way.
LEMMA TriesMeansTried ==
  ASSUME Inv, Tries, Sweeps PROVE RemovedIsTried
<1>1. setting \in Settings /\ setting.pages \subseteq Apps /\ attached \subseteq Apps
  BY InvParts, SettingsAssumption DEF WorldTypeOK
<1>2. \A a \in setting.pages \ listed : Whole(setting, Tried, a)
  BY DEF Tries, Left
<1>3. RepositoryTried
  <2> SUFFICES ASSUME NEW a \in setting.pages \ listed, a \in repo, a \notin refused,
                      ~(view = "provider" /\ ByTerraform(kind))
               PROVE  UnderWay({"deleteRepo"}, a)
    BY DEF RepositoryTried
  <2>1. thread["repo"].h = "deleteRepo" /\ AppOf[thread["repo"].home] = a
    BY <1>1, <1>2 DEF Whole, Tried, view, kind
  <2> QED
    BY <2>1, SlotSorts DEF UnderWay
<1>4. StacksTried
  <2> SUFFICES ASSUME view \in {"management", "provider"}, NEW d \in Deps,
                      AppOf[d] \in setting.pages \ listed,
                      view = "provider" => d = Lowest[AppOf[d]],
                      stack[d] # "going", d \notin refused
               PROVE  UnderWay({"each"}, d)
    BY DEF StacksTried
  <2>1. d \in Tried.stacks
    BY <1>2 DEF Whole, DeploymentsOf, view
  <2>2. thread[d].h = "each"
    BY <2>1 DEF Tried
  <2>3. d \in Slots /\ ~Operates(setting)
    BY SlotSorts DEF Operates, view
  <2>4. Placed(setting, d, thread[d]) /\ thread[d] # Off
    BY <2>2, <2>3, OffIsNone DEF Tries, Slotted
  <2>5. thread[d].dep = d
    BY <2>3, <2>4 DEF Placed, Fits
  <2> QED
    BY <2>2, <2>3, <2>5 DEF UnderWay
<1>5. AttachedUnseen
  BY <1>1 DEF Tries, Left, Tried, AttachedUnseen, PlainView, view
<1>6. WorkloadFirst
  BY DEF Sweeps, InClusters, WorkloadFirst, Managed, view, kind
<1> QED
  BY <1>3, <1>4, <1>5, <1>6 DEF RemovedIsTried

\* What leaves the catalog takes its repository and the infrastructure of its deployments
\* along, or their deletion is under way or has failed, though the handlers that delete them
\* are not awaited and go on after their page is left: DeleteComponentCard.tsx:277,
\* DeleteEnvironmentCard.tsx:90, DeleteProviderCard.tsx:108.  On EKS no deployment goes before
\* the Kubernetes objects of one environment of its application, the one whose page showed.
THEOREM RemovalsAreTried == Spec => []RemovedIsTried
<1>1. Init => Inv /\ Tries /\ Sweeps
  <2>1. ASSUME Init PROVE Sweeps
    BY <2>1, OffIsNone DEF Init, Sweeps, WorkloadFirst, Swept
  <2> QED
    BY <2>1, InitInv, InitTries
<1>2. Inv /\ Tries /\ Sweeps /\ [Next]_vars => Inv' /\ Tries' /\ Sweeps'
  BY StepInv, StepTries, StepSweeps
<1>3. Inv /\ Tries /\ Sweeps => RemovedIsTried
  BY TriesMeansTried
<1> QED
  BY <1>1, <1>2, <1>3, PTL DEF Spec
===============================================================================
