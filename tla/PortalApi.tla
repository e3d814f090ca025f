------------------------------- MODULE PortalApi -------------------------------
(***************************************************************************)
(* OPAApiClient (harmonix-frontend/src/api): whose account, region and     *)
(* application a request of the portal names.  The client keeps ONE set of *)
(* backend parameters for the whole page; most methods let their caller    *)
(* override it, some do not, and the deletion of a secret names the        *)
(* platform's application instead.                                         *)
(***************************************************************************)

\* Methods that take the override, when they are given one.
EcsMethods ==
  {"getTaskDetails", "getAuditDetails", "updateService", "getSecret",
   "getLogStreamNames", "getLogStreamData"}
RepositoryMethods == {"updateProviderToEnvironment", "deleteTFProvider", "deleteRepository"}

\* The deletion of a stack ignores the override.
SlipStackMethods ==
  {"getStackDetails", "getStackEvents", "updateStack", "createStack", "doesS3FileExist"}

StackMethods ==
  {"getStackDetails", "getStackEvents", "updateStack", "createStack", "deleteStack",
   "doesS3FileExist"}

ResourceMethods ==
  {"getResourceGroupResources", "getSSMParameter", "describeTaskDefinition",
   "updateTaskDefinition"}
LambdaMethods == {"invokeLambda", "getEKSAppManifests"}

Overridable == EcsMethods \cup RepositoryMethods \cup StackMethods \cup ResourceMethods
                 \cup LambdaMethods

\* Methods that always name the shared parameters, whatever they are given.
PlatformReads == {"getPlatformSecret", "getPlatformSSMParam"}
BindingMethods == {"bindResource", "unBindResource"}
PromotionMethods == {"promoteApp"}

Methods == Overridable \cup PlatformReads \cup BindingMethods \cup PromotionMethods
             \cup {"deletePlatformSecret"}

\* getAppliedBackendParams: own says whether the caller gives dep as an override.
AppliedBackendParams(method, own, dep, params) ==
  IF own /\ method \in Overridable THEN dep ELSE params

===============================================================================
