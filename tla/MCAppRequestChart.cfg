\* Does Helm get what was resolved? Violated: a chart is resolved, and dropped.
SPECIFICATION Spec
CONSTANTS
  Runs = {r1}
  NoRun = noRun
  None = none
  Mask = mask
  Requests <- AllRequests
  Environments <- AllEnvironments
  Bundles = {b1}
  BadNames = {"../my.json"}
  FlagMarked <- FlagWords
  KeyMarked <- KeyWords
  Dashed <- DashedWords
  SetPrefixed = {"--set", "--set-file"}
  SetFlags = {"--set"}
INVARIANT HelmGetsTheChart
CHECK_DEADLOCK FALSE
