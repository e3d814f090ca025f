SPECIFICATION Spec
CONSTANTS
  p1 = p1
  p2 = p2
  p3 = p3
  None = None
  Requests = {r1, r2}
  Providers = {p1, p3}
  Account <- MCAccount
  Routes = {"updateService", "createStack"}
INVARIANT IsolatedProviders
