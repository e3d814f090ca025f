SPECIFICATION Spec
CONSTANTS
  p1 = p1
  p2 = p2
  p3 = p3
  dev = dev
  dev2 = dev2
  p4 = p4
  prod = prod
  db = db
  db2 = db2
  None = None
  Ids = {n1, n2}
  Provs = {p1, p2, p3, p4}
  Envs = {dev, dev2, prod}
  EnvOf <- MCEnvOf
  FirstEnv = dev2
  FileOrder <- MCFileOrder
  Resources = {db, db2}
  PoliciesFor <- MCPoliciesFor
  NameBegins <- MCNameBegins
  Templates = {"tfNodejs"}
  Failing = {}
CHECK_DEADLOCK FALSE
INVARIANTS
  DestructionIsStarted
