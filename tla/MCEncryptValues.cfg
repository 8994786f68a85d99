\* Two commands that meet on one output, or on each other's input.
SPECIFICATION Spec
CONSTANTS
  plain = plain
  sealed = sealed
  v1 = v1
  v2 = v2
  k1 = k1
  k2 = k2
  Encryptors = {e1, e2}
  Readers = {r1}
  Paths = {plain, sealed}
  Values = {v1, v2}
  Passes = {k1, k2}
  Requests <- MCRequests
INVARIANTS
  TypeOK
  DecryptedIsGenuine
  WrittenIsWhole
CHECK_DEADLOCK FALSE
