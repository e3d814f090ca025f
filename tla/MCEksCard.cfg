SPECIFICATION FairSpec
CONSTANT Mounts = {m1, m2}
INVARIANTS TypeOK ClickFindsNoLoop StuckOnlyOnRepeat
PROPERTIES GoneIsQuiet StartEndsStarted PollingEnds
