CONSTANTS
  Nobody = Nobody
  l1 = l1
  l2 = l2
  Launchers = {l1, l2}
  Wants <- CliAndWeb
  MaxTries = 2
SPECIFICATION FairLauncherSpec
INVARIANTS
  FailedLaunchersStopTheirServices
  OnlyOneStarts
PROPERTIES
  EveryLauncherEnds
CHECK_DEADLOCK FALSE
