\* One command with every kind of request, environment, failure and crash.
SPECIFICATION Spec
CONSTANTS
  Runs = {r1}
  NoRun = noRun
  None = none
  Mask = mask
  Requests <- AllRequests
  Environments <- AllEnvironments
  Bundles = {b1, b2}
  BadNames = {"../my.json"}
  FlagMarked <- FlagWords
  KeyMarked <- KeyWords
  Dashed <- DashedWords
  SetPrefixed = {"--set", "--set-file"}
  SetFlags = {"--set"}
INVARIANTS
  TypeOK
  RefusedBeforeHelm
  RecordTellsRun
  LogTellsHelm
CHECK_DEADLOCK FALSE
