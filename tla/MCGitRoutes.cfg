SPECIFICATION FairSpec
CONSTANTS
  onGitLab = onGitLab
  onGitHub = onGitHub
  None = None
  Requests = {r1, r2}
  Repos = {onGitLab, onGitHub}
  Home <- MCHome
  EnvProviders = {e1, e2}
  Ops = {"read", "promote", "bind", "unbind", "destroy", "deleteRepo", "add", "remove", "platform"}
INVARIANTS
  TypeOK
  UncrossedReachesHome
  SuccessIsCommitted
  UncrossedIsTold
  FreshUpdatesKept
  ScheduledIsCarriedOut
  
PROPERTIES
  EveryRequestIsAnswered
