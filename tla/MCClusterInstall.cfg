\* Two installs on one host, with every kind of dependency, failure and crash.
SPECIFICATION FairSpec
CONSTANTS
  Installs = {i1, i2}
  OptionSets <- MCOptionSets
  DepSets <- MCDepSets
INVARIANTS
  TypeOK
  CheckedBeforeChanges
  CommandsLoggedOnce
  LastEntryTellsExit
PROPERTIES
  InstallsAsPromised
  EveryInstallEnds
CHECK_DEADLOCK FALSE
