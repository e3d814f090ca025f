SPECIFICATION FairSpec
CONSTANTS
  Mounts = {m1, m2}
  Runs = {r1, r2}
  MaxPolls = 2
  None = None
INVARIANTS TypeOK NoLoopStranded PollingIsAtWork
PROPERTIES GoneIsSilent OutcomeIsShown
