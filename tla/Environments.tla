------------------------------ MODULE Environments ------------------------------
(***************************************************************************)
(* The kinds of environment provider of src/iac/roots: the parameters the  *)
(* stack of each leaves in SSM, what its two roles may do, what the job of *)
(* its pipeline records of it in the catalog; and, from the other side,    *)
(* what the portal's pages and an application's jobs call with those roles.*)
(*                                                                         *)
(* A parameter is named for what it holds.  Only the actions that the      *)
(* pages and the jobs call are kept of a policy, and conditions and        *)
(* resource patterns that match everything of the provider are left out.   *)
(***************************************************************************)

Kinds == {"basic", "ecs", "ecsEc2", "eks", "eksExisting", "serverless", "genAi"}

\* The envType a template writes.  The basic one writes "serverless".
EnvType ==
  [basic |-> "serverless", ecs |-> "ecs", ecsEc2 |-> "ecs", eks |-> "eks",
   eksExisting |-> "eks", serverless |-> "serverless", genAi |-> "gen-ai-serverless"]

-------------------------------------------------------------------------------
(* What the portal does with the operations role of a provider. *)

Audited == {"ssm:GetParameter", "dynamodb:PutItem", "kms:Decrypt"}
AuditTab == {"ssm:GetParameter", "dynamodb:Scan", "kms:Decrypt"}
LogsTab == {"logs:DescribeLogStreams", "logs:GetLogEvents"}
\* The promotion reads the parameters of the provider promoted to, the deletion a stack.
ManagementTab == {"ssm:GetParameter", "cloudformation:DeleteStack"}
InfrastructureCard ==
  {"resource-groups:ListGroupResources", "tag:GetResources",
   "secretsmanager:GetSecretValue", "ssm:GetParameter"}

EcsPage ==
  {"ecs:ListTasks", "ecs:DescribeTasks", "ecs:UpdateService", "ecs:DescribeTaskDefinition",
   "ecs:RegisterTaskDefinition", "iam:PassRole"} \cup InfrastructureCard
EksPage == {"lambda:InvokeFunction"} \cup InfrastructureCard
\* A stack created without a role of its own acts as its creator.
ServerlessPage ==
  {"cloudformation:DescribeStackEvents", "cloudformation:CreateStack",
   "cloudformation:UpdateStack", "s3:GetObject", "s3:GetObjectAttributes",
   "iam:CreateRole", "lambda:CreateFunction", "apigateway:POST"} \cup InfrastructureCard

Tabs == Audited \cup AuditTab \cup LogsTab \cup ManagementTab

PageCalls ==
  [t \in {"ecs", "eks", "serverless", "gen-ai-serverless"} |->
     Tabs \cup CASE t = "ecs" -> EcsPage
                 [] t = "eks" -> EksPage
                 [] OTHER -> ServerlessPage]

(* What the jobs of an application do with the provisioning role. *)

CdkDeploy == {"cloudformation:CreateStack", "cloudformation:UpdateStack", "iam:PassRole",
              "s3:PutObject", "ssm:GetParameter"}
PushImage == {"ecr:PutImage"}
EksJobs == {"eks:DescribeCluster", "cloudformation:DescribeStacks", "lambda:InvokeFunction",
            "elasticloadbalancing:DescribeLoadBalancers",
            "elasticloadbalancing:DescribeTags"}

JobCalls ==
  [t \in DOMAIN PageCalls |->
     CdkDeploy \cup CASE t = "ecs" -> PushImage
                      [] t = "eks" -> PushImage \cup EksJobs
                      [] OTHER -> {}]

\* What the portal and its scaffolder, and the runner of the jobs, do with roles of their own.
PlatformCalls ==
  {"sts:AssumeRole", "ssm:GetParameter", "secretsmanager:GetSecretValue",
   "secretsmanager:CreateSecret", "secretsmanager:PutSecretValue",
   "secretsmanager:DeleteSecret"}
PipelineCalls == {"sts:AssumeRole"}
\* The function that runs kubectl acts as the admin of the cluster or of an application.
KubectlCalls == {"sts:AssumeRole", "eks:DescribeCluster"}

Calls == UNION {PageCalls[t] \cup JobCalls[t] : t \in DOMAIN PageCalls}

-------------------------------------------------------------------------------
(* What the managed policies of AWS grant, of those calls. *)

CloudWatchFullAccess == LogsTab
ContainerRegistryFullAccess == PushImage
SSMReadOnlyAccess == {"ssm:GetParameter"}
SSMFullAccess == SSMReadOnlyAccess
CloudFormationFullAccess ==
  {"cloudformation:CreateStack", "cloudformation:UpdateStack", "cloudformation:DeleteStack",
   "cloudformation:DescribeStacks", "cloudformation:DescribeStackEvents"}
IAMFullAccess == {"iam:CreateRole", "iam:PassRole"}
LambdaFullAccess == {"lambda:CreateFunction", "lambda:InvokeFunction"}
APIGatewayAdministrator == {"apigateway:POST"}
S3ReadOnlyAccess == {"s3:GetObject", "s3:GetObjectAttributes"}
S3FullAccess == S3ReadOnlyAccess \cup {"s3:PutObject"}
PowerUserAccess == Calls \ IAMFullAccess

(* The operations roles. *)

\* The statements all of them have.
CommonStatements ==
  {"secretsmanager:GetSecretValue", "s3:GetObject", "s3:GetObjectAttributes",
   "resource-groups:ListGroupResources", "tag:GetResources", "dynamodb:Scan",
   "dynamodb:PutItem", "kms:Decrypt"}

EcsOperations ==
  CommonStatements \cup ContainerRegistryFullAccess \cup CloudWatchFullAccess
    \cup SSMReadOnlyAccess \cup CloudFormationFullAccess
    \cup {"ecs:ListTasks", "ecs:DescribeTasks", "ecs:UpdateService",
          "ecs:DescribeTaskDefinition", "ecs:RegisterTaskDefinition", "iam:PassRole"}

EcsEc2Operations ==
  CommonStatements \cup ContainerRegistryFullAccess \cup CloudWatchFullAccess
    \cup SSMReadOnlyAccess \cup CloudFormationFullAccess
    \cup {"ecs:ListTasks", "ecs:DescribeTasks", "ecs:UpdateService",
          "ecs:DescribeTaskDefinition", "ecs:RegisterTaskDefinition", "iam:PassRole"}

EksOperations ==
  CommonStatements \cup ContainerRegistryFullAccess \cup CloudWatchFullAccess
    \cup SSMReadOnlyAccess \cup CloudFormationFullAccess
    \cup {"eks:DescribeCluster", "lambda:InvokeFunction"}

ServerlessOperations ==
  CommonStatements \cup ContainerRegistryFullAccess \cup CloudWatchFullAccess
    \cup SSMReadOnlyAccess \cup CloudFormationFullAccess \cup IAMFullAccess
    \cup LambdaFullAccess \cup APIGatewayAdministrator \cup S3ReadOnlyAccess

BasicOperations ==
  CommonStatements \cup ContainerRegistryFullAccess \cup CloudWatchFullAccess
    \cup SSMReadOnlyAccess \cup CloudFormationFullAccess \cup IAMFullAccess
    \cup LambdaFullAccess \cup APIGatewayAdministrator \cup S3ReadOnlyAccess

GenAiOperations ==
  CommonStatements \cup ContainerRegistryFullAccess \cup CloudWatchFullAccess
    \cup SSMFullAccess \cup CloudFormationFullAccess \cup IAMFullAccess
    \cup LambdaFullAccess \cup APIGatewayAdministrator \cup S3FullAccess

(* The provisioning roles.  Only the one of EKS does without PowerUserAccess. *)

Deploying == ContainerRegistryFullAccess \cup CloudWatchFullAccess \cup SSMReadOnlyAccess
               \cup CloudFormationFullAccess \cup IAMFullAccess \cup S3FullAccess

EcsProvisioning == PowerUserAccess \cup Deploying
EcsEc2Provisioning == PowerUserAccess \cup Deploying
ServerlessProvisioning == PowerUserAccess \cup Deploying
BasicProvisioning == PowerUserAccess \cup Deploying
GenAiProvisioning == PowerUserAccess \cup Deploying
EksProvisioning ==
  Deploying \cup {"eks:DescribeCluster", "lambda:InvokeFunction", "kms:Decrypt",
                  "elasticloadbalancing:DescribeLoadBalancers",
                  "elasticloadbalancing:DescribeTags"}

(* The roles of the platform, by the parameter that has their ARN. *)

PlatformSecrets ==
  {"secretsmanager:CreateSecret", "secretsmanager:GetSecretValue",
   "secretsmanager:PutSecretValue", "secretsmanager:DeleteSecret"}
RoleAssumption == {"sts:AssumeRole"}
PlatformRole ==
  PlatformSecrets \cup RoleAssumption \cup ContainerRegistryFullAccess
    \cup CloudWatchFullAccess \cup SSMReadOnlyAccess
PipelineRole == {"sts:AssumeRole", "ecr:PutImage", "s3:PutObject", "kms:Decrypt",
                 "cloudformation:DescribeStacks"}

Platform ==
  [p \in {"/opa/platform-role", "/opa/pipeline-role"} |->
     IF p = "/opa/platform-role" THEN PlatformRole ELSE PipelineRole]

KubectlLambdaRole == {"sts:AssumeRole", "eks:DescribeCluster"}

-------------------------------------------------------------------------------
(* The stacks: a construct leaves parameters, an output is the name of one. *)

SubnetParameters == {"publicSubnets", "privateSubnets"}
Network == SubnetParameters \cup {"vpc"}
EcsCluster == {"cluster"}
\* The function comes with the cluster, or is one there is already.
EksCluster == {"cluster", "kubectlLambda"}
ClusterAdminRole == {"clusterAdminRole"}
AuditTable == {"audit"}
RoleParameters == {"provisioningRole", "operationsRole"}

CommonOutputs == {"AuditTable", "ProvisioningRoleARN", "OperationsRoleARN"}
VpcOutput == {"VPC"}
ClusterOutput == {"ClusterName"}

\* Who may assume the roles: the template reads the parameters of the platform.
PlatformVariables == [platformRole |-> "/opa/platform-role", pipelineRole |-> "/opa/pipeline-role"]

Stack(parameters, outputs, operations, provisioning) ==
  [parameters |-> parameters, outputs |-> outputs,
   operations |-> operations, operationsBy |-> PlatformVariables.platformRole,
   provisioning |-> provisioning, provisioningBy |-> PlatformVariables.pipelineRole,
   kubectl |-> IF "kubectlLambda" \in parameters THEN KubectlLambdaRole ELSE {}]

EcsStack ==
  Stack(Network \cup EcsCluster \cup AuditTable \cup RoleParameters,
        VpcOutput \cup ClusterOutput \cup CommonOutputs, EcsOperations, EcsProvisioning)

EcsEc2Stack ==
  Stack(Network \cup EcsCluster \cup AuditTable \cup RoleParameters,
        VpcOutput \cup ClusterOutput \cup CommonOutputs, EcsEc2Operations, EcsEc2Provisioning)

\* The variable of the function is found among the resources of the stack.
KubectlOutputs == {"KUBECTL_LAMBDA_ARN", "ClusterAdminRoleDirectARN"}

\* Also for an existing cluster: it is looked up, the parameter is left all the same.
EksStack ==
  Stack(Network \cup EksCluster \cup ClusterAdminRole \cup AuditTable \cup RoleParameters,
        VpcOutput \cup ClusterOutput \cup KubectlOutputs \cup CommonOutputs,
        EksOperations, EksProvisioning)

ServerlessStack ==
  Stack(Network \cup AuditTable \cup RoleParameters, VpcOutput \cup CommonOutputs,
        ServerlessOperations, ServerlessProvisioning)

\* CloudFormation drops the underscore of Provisioning_Role_ARN.
GenAiStack ==
  Stack(Network \cup AuditTable \cup RoleParameters, VpcOutput \cup CommonOutputs,
        GenAiOperations, GenAiProvisioning)

\* It has no network.
BasicStack ==
  Stack(AuditTable \cup RoleParameters, CommonOutputs, BasicOperations, BasicProvisioning)

StackOf ==
  [basic |-> BasicStack, ecs |-> EcsStack, ecsEc2 |-> EcsEc2Stack, eks |-> EksStack,
   eksExisting |-> EksStack, serverless |-> ServerlessStack, genAi |-> GenAiStack]

-------------------------------------------------------------------------------
(* What the catalog says of a provider.                                    *)

Empty == ""

\* The keys of the entity a template writes that it leaves empty for the pipeline.
BlankKeys ==
  LET clustered == {"vpc", "clusterName", "provisioningRole"}
      kubectl == clustered \cup {"kubectlLambdaArn", "clusterAdminRole"}
  IN  [basic |-> {"vpc"}, serverless |-> {"vpc"}, genAi |-> {"vpc"},
       ecs |-> clustered, ecsEc2 |-> clustered, eks |-> kubectl, eksExisting |-> kubectl]

\* The keys the job of the pipeline sets.  That of the basic provider writes
\* "provisioning-role", which is none of them.
JobWrites ==
  LET clustered == {"vpc", "provisioningRole", "clusterName"}
      kubectl == clustered \cup {"kubectlLambdaArn", "clusterAdminRole"}
  IN  [basic |-> {"vpc"}, serverless |-> {"vpc", "provisioningRole"},
       genAi |-> {"vpc", "provisioningRole"}, ecs |-> clustered, ecsEc2 |-> clustered,
       eks |-> kubectl, eksExisting |-> kubectl]

\* The output each is set from, and the parameter that output is the name of.
Variable ==
  [vpc |-> "VPC", provisioningRole |-> "ProvisioningRoleARN", clusterName |-> "ClusterName",
   kubectlLambdaArn |-> "KUBECTL_LAMBDA_ARN", clusterAdminRole |-> "ClusterAdminRoleDirectARN"]
OutputOf ==
  [VPC |-> "vpc", ClusterName |-> "cluster", AuditTable |-> "audit",
   ProvisioningRoleARN |-> "provisioningRole", OperationsRoleARN |-> "operationsRole",
   KUBECTL_LAMBDA_ARN |-> "kubectlLambda", ClusterAdminRoleDirectARN |-> "clusterAdminRole"]

\* A variable the stack has no output for is empty.
Written(k, key) ==
  IF Variable[key] \in StackOf[k].outputs THEN OutputOf[Variable[key]] ELSE Empty

Metadata(k, recorded) ==
  LET written == IF recorded THEN JobWrites[k] ELSE {}
  IN  [key \in BlankKeys[k] \cup written |->
         IF key \in written THEN Written(k, key) ELSE Empty]

Value(metadata, key) == IF key \in DOMAIN metadata THEN metadata[key] ELSE Empty

(* What an action of the scaffolder makes of it. *)

\* Why the metadata are refused before the provider is asked anything.
Unconfigured(k, recorded) ==
  LET m == Metadata(k, recorded)
  IN  \/ Value(m, "provisioningRole") = Empty
      \/ Value(m, "vpc") = Empty /\ EnvType[k] \in {"ecs", "eks"}

\* The parameters read then.  Those of the subnets are found below the one of the VPC.
ParametersRead(k, recorded) ==
  LET m == Metadata(k, recorded)
  IN  {Value(m, "provisioningRole")}
        \cup (IF Value(m, "vpc") # Empty THEN {Value(m, "vpc")} \cup SubnetParameters ELSE {})
        \cup (IF EnvType[k] \in {"ecs", "eks"} THEN {Value(m, "clusterName")} ELSE {})

\* Those that are answered while the stack is up.
Readable(k) ==
  IF "ssm:GetParameter" \in StackOf[k].operations THEN StackOf[k].parameters ELSE {}
=============================================================================
