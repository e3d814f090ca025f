SPECIFICATION Spec
CONSTANTS
  p1 = p1
  p2 = p2
  t1 = t1
  t2 = t2
  None = None
  Providers = {p1, p2}
  Envs = {e1}
  Names = {n1}
  Tasks = {t1, t2}
  Settings <- MCSettings
  MaxClicks = 2
CHECK_DEADLOCK FALSE
INVARIANTS
  TypeOK
  RegisteredIsWhole
  ProvidersServe
