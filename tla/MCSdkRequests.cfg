SPECIFICATION FairSpec
CONSTANTS
  p1 = p1
  p2 = p2
  p3 = p3
  None = None
  Requests = {r1, r2}
  Providers = {p1, p2, p3}
  Account <- MCAccount
  Routes = {"listTasks", "updateService", "deleteStack", "createStack", "resourceGroup", "describeStack"}
INVARIANTS
  TypeOK
  FirstCallIsOwn
  UncrossedIsIsolated
  AuditIsTrue
  SuccessIsAudited
PROPERTIES
  EveryRequestIsAnswered
  AuditTrailKept
