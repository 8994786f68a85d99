\* One install; does the bootstrap wait until the API is ready?
SPECIFICATION Spec
CONSTANTS
  Installs = {i1}
  OptionSets <- MCOptionSets
  DepSets <- MCDepSets
PROPERTY WaitsForReady
CHECK_DEADLOCK FALSE
