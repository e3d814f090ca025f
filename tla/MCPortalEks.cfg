SPECIFICATION Spec
CONSTANTS
  two = two
  sam = sam
  one = one
  host = host
  twoDev = twoDev
  twoProd = twoProd
  samDev = samDev
  oneDev = oneDev
  hostDep = hostDep
  c1 = c1
  c2 = c2
  n1 = n1
  n2 = n2
  None = None
  Apps = {two, sam, one, host}
  Deps = {twoDev, twoProd, samDev, oneDev, hostDep}
  AppOf <- MCAppOf
  EnvOf <- MCEnvOf
  Lowest <- MCLowest
  Serverless = {samDev}
  Settings <- MCEksSettings
  Loads = {n1, n2}
  Clicks = {c1, c2}
CHECK_DEADLOCK FALSE
INVARIANT WorkloadsTried
