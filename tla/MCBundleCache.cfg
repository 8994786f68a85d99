\* A cluster install and an app command load every kind of bundle, together or
\* one after the other.
SPECIFICATION FairSpec
CONSTANTS
  chart = chart
  image = image
  Files <- BundleFiles
  Archives <- AllArchives
  NoArchive = no_archive
  Loaders = {l1, l2}
  Apps = {l2}
INVARIANTS
  TypeOK
  AcceptedIsSound
  LoadedIsComplete
  FailedIsUnsound
PROPERTY EveryLoadEnds
CHECK_DEADLOCK FALSE
