\* Two joins race for a token while it ages, is edited and deleted: safety, the
\* refinement of OneTimeToken, and that no command hangs.
SPECIFICATION FairSpec
CONSTANTS
  Creators = {c1}
  Joiners = {j1, j2}
  Strays = {}
  Garbage = garbage
  RequestTimeout = 1
  DefaultTTL = 1
  MaxTTL = 1
  AskedTTLs <- MCAskedTTLs
  Skew <- MCSkew
  MaxClock = 3
  MaxVersion = 2
INVARIANTS
  TypeOK
  AcceptedIsEntitled
  AcceptedWhileFresh
  RefusedJoinSparesToken
  RefusalIsTrue
PROPERTIES
  KeepsPromise
  EveryCommandEnds
CHECK_DEADLOCK FALSE
