SPECIFICATION Spec
CONSTANTS
  onGitLab = onGitLab
  onGitHub = onGitHub
  None = None
  Requests = {r1, r2}
  Repos = {onGitHub}
  Home <- MCHome
  EnvProviders = {e1, e2}
  Ops = {"add", "remove"}
INVARIANT UpdatesKept
