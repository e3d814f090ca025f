------------------------------ MODULE CardHandlers -----------------------------
(***************************************************************************)
(* The handlers of the portal's cards (harmonix-frontend/src/components):  *)
(* what each does when it is called, the requests and pauses it awaits in  *)
(* turn, what it does after each, and what it does when one fails.  Portal *)
(* runs them.                                                              *)
(*                                                                         *)
(* Effects on the card: "busy" shows its spinner, "idle" takes it away,    *)
(* "broken" leaves an error in the card's place, "display" shows the task  *)
(* that the request returned, "home" leaves the page, and "stuck" records  *)
(* that the handler has ended with nothing left to take the spinner away.  *)
(***************************************************************************)
EXTENDS Sequences, PortalApi

\* A step awaits a call; a polling step sleeps before each call until it has one of the
\* answers awaited.
Await(method) ==
  [call |-> method, own |-> FALSE, pause |-> FALSE, until |-> {}, each |-> {}, then |-> {},
   forks |-> {}, caught |-> FALSE, rescue |-> {}, leapOn |-> "", leap |-> 0]

Pause == [Await("sleep") EXCEPT !.pause = TRUE]
\* With an override of the shared parameters.
Own(step) == [step EXCEPT !.own = TRUE]
Poll(method, answers) == [[Await(method) EXCEPT !.pause = TRUE] EXCEPT !.until = answers]
\* After each answer of a poll.
Each(step, effects) == [step EXCEPT !.each = effects]
Then(step, effects) == [step EXCEPT !.then = effects]
\* Starts handlers whose end it does not await.
Fork(step, handlers) == [step EXCEPT !.forks = handlers]
Catch(step, effects) == [[step EXCEPT !.caught = TRUE] EXCEPT !.rescue = effects]
\* After this answer the next steps are left out.
Leap(step, answer, steps) == [[step EXCEPT !.leapOn = answer] EXCEPT !.leap = steps]

Handler(place, first, forks, steps) ==
  [card |-> place, first |-> first, forks |-> forks, steps |-> steps]

\* What is deleted: how it is deployed, and whether it runs in a Kubernetes cluster.
Kinds == {"cdk", "cdkEks", "terraform", "terraformEks", "other"}
OnEks(kind) == kind \in {"cdkEks", "terraformEks"}
ByTerraform(kind) == kind \in {"terraform", "terraformEks"}

CatalogMethods ==
  {"getEntities", "getEntityByRef", "getLocationByRef", "removeEntityByUid", "refreshEntity"}

-------------------------------------------------------------------------------
(* AppStateCard and AppConfigCard, for a service of ECS. *)

StateMount ==
  Handler("state", {"busy"}, {},
    <<Catch(Then(Await("getTaskDetails"), {"idle", "display"}), {"broken"})>>)

\* The card is not busy until the service is updated.
StartTask ==
  Handler("state", {}, {},
    <<Then(Await("updateService"), {"busy"}),
      Leap(Then(Poll("getTaskDetails", {"pending", "running"}), {"idle", "display"}),
           "running", 1),
      Then(Each(Poll("getTaskDetails", {"running"}), {"display"}), {"display"})>>)

\* It awaits a task that is going on, and never sees the one that ends.
SlipStopTask ==
  Handler("state", {}, {},
    <<Then(Await("updateService"), {"busy"}),
      Then(Poll("getTaskDetails", {"pending"}), {"idle", "display"})>>)

StopTask ==
  Handler("state", {}, {},
    <<Then(Await("updateService"), {"busy"}),
      Then(Poll("getTaskDetails", {"none"}), {"idle", "display"})>>)

ConfigMount ==
  Handler("config", {"busy"}, {},
    <<Catch(Then(Await("describeTaskDefinition"), {"idle"}), {"broken"})>>)

\* The service's failure is not caught: its promise is not returned to the chain.
SaveConfig ==
  Handler("config", {"busy"}, {},
    <<Catch(Await("updateTaskDefinition"), {"broken"}),
      Then(Await("updateService"), {"idle"})>>)

\* With an empty name or value onSave returns, after it has shown the spinner.
SaveEmpty == Handler("config", {"busy", "stuck"}, {}, <<>>)

-------------------------------------------------------------------------------
(* CloudwatchLogsTable, AuditTable, InfrastructureCard and ResourceDetailsDialog. *)

LogsMount ==
  Handler("logs", {"busy"}, {},
    <<Catch(Then(Await("getLogStreamNames"), {"idle"}), {"broken"})>>)

AuditMount ==
  Handler("audit", {"busy"}, {},
    <<Catch(Then(Await("getAuditDetails"), {"idle"}), {"broken"})>>)

OpenLog ==
  Handler("logDialog", {"busy"}, {},
    <<Catch(Then(Await("getLogStreamData"), {"idle"}), {"idle"})>>)

\* Every secret and parameter has a dialog, which loads when the list is shown.
InfraMount ==
  Handler("infra", {"busy"}, {},
    <<Catch(Fork(Then(Await("getResourceGroupResources"), {"idle"}), {"details"}),
            {"broken"})>>)

\* Without a resource group the error handler itself fails: the error has no body.
InfraMissing == Handler("infra", {"busy", "stuck"}, {}, <<>>)

DetailsMount ==
  Handler("details", {"busy"}, {}, <<Catch(Then(Await("getSecret"), {"idle"}), {"idle"})>>)

-------------------------------------------------------------------------------
(* AppPromoCard and ResourceBinding. *)

\* Only the last request's failure is caught.  The parameters are read from the provider
\* promoted to, which the override names.
Promote ==
  Handler("promo", {"busy"}, {},
    <<Await("getEntities"), Await("getEntityByRef"), Own(Await("getSSMParameter")),
      Catch(Then(Await("promoteApp"), {"idle"}), {"idle"})>>)

Bind ==
  Handler("binding", {"busy"}, {}, <<Catch(Then(Await("bindResource"), {"idle"}), {"idle"})>>)

Unbind ==
  Handler("binding", {"busy"}, {}, <<Catch(Then(Await("unBindResource"), {"idle"}), {"idle"})>>)

-------------------------------------------------------------------------------
(* DeleteComponentCard. *)

\* deleteK8sApp: nothing more when the application has no manifests.
DeleteK8sApp ==
  <<Leap(Catch(Await("getEKSAppManifests"), {"idle"}), "none", 2),
    Catch(Await("getSSMParameter"), {"idle"}),
    Catch(Await("invokeLambda"), {"idle"})>>

\* done: what the card does once the deletion is under way.
DeleteFromSingleProvider(kind, done) ==
  (IF OnEks(kind) THEN DeleteK8sApp ELSE <<>>)
    \o <<Catch(Then(Own(Await(IF ByTerraform(kind) THEN "deleteTFProvider"
                              ELSE "deleteStack")), done), {"idle"})>>

\* An application deployed in another way cannot be deleted: the card says so.
DeleteOne(kind) ==
  IF kind = "other" THEN Handler("remove", {"idle"}, {}, <<>>)
  ELSE Handler("remove", {"busy"}, {}, DeleteFromSingleProvider(kind, {"idle"}))

\* One of those that DeleteAll starts: only its failure touches the spinner.
DeleteEach(kind) ==
  IF kind = "other" THEN Handler("remove", {"idle"}, {}, <<>>)
  ELSE Handler("remove", {}, {}, DeleteFromSingleProvider(kind, {}))

\* The entity leaves the catalog without its repository.
SlipDeleteAll(kind) ==
  Handler("remove", {}, {"each"},
    IF kind = "other" THEN <<>>
    ELSE IF ByTerraform(kind)
    THEN <<Then(Pause, {"idle"})>>
    ELSE <<Pause, Fork(Then(Pause, {"idle"}), {"deleteSecret", "deleteFromCatalog"}),
           Then(Pause, {"home"})>>)

\* Nothing that it starts is awaited, and the card is not busy.
DeleteAll(kind) ==
  Handler("remove", {}, {"each"},
    IF kind = "other" THEN <<>>
    ELSE IF ByTerraform(kind)
    THEN <<Then(Pause, {"idle"})>>
    ELSE <<Fork(Pause, {"deleteRepo"}),
           Fork(Then(Pause, {"idle"}), {"deleteSecret", "deleteFromCatalog"}),
           Then(Pause, {"home"})>>)

DeleteRepo(place) == Handler(place, {}, {}, <<Catch(Await("deleteRepository"), {"idle"})>>)

DeleteSecret == Handler("remove", {}, {}, <<Catch(Await("deletePlatformSecret"), {"idle"})>>)

DeleteFromCatalog(place) ==
  Handler(place, {}, {}, <<Await("getLocationByRef"), Await("removeEntityByUid")>>)

-------------------------------------------------------------------------------
(* AwsEnvironmentProviderCard, DeleteEnvironmentCard and DeleteProviderCard. *)

\* updateProvider returns before its request is answered, and the card says it succeeded.
AddProvider ==
  Handler("providers", {}, {"attach"}, <<Catch(Await("refreshEntity"), {"idle"})>>)

RemoveProvider ==
  Handler("providers", {}, {"detach"},
    <<Catch(Await("refreshEntity"), {"idle"}), Catch(Await("refreshEntity"), {"idle"})>>)

UpdateProvider == Handler("providers", {}, {}, <<Own(Await("updateProviderToEnvironment"))>>)

DeleteEnvironment ==
  Handler("deleteEnvironment", {"busy"}, {"deleteRepo"},
    <<Pause, Fork(Then(Pause, {"idle", "home"}), {"deleteFromCatalog"})>>)

DeleteProvider(kind) ==
  Handler("deleteProvider", IF kind = "other" THEN {"busy", "stuck"} ELSE {"busy"}, {},
    IF kind = "other" THEN <<>>
    ELSE IF ByTerraform(kind)
    THEN <<Catch(Own(Await("deleteTFProvider")), {"idle"}),
           Fork(Then(Pause, {"idle"}), {"deleteFromCatalog"})>>
    ELSE <<Catch(Own(Await("deleteStack")), {"idle"}),
           Fork(Pause, {"deleteRepo"}),
           Fork(Then(Pause, {"idle"}), {"deleteFromCatalog"}),
           Then(Pause, {"home"})>>)

===============================================================================
