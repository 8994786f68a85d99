\* Three operators, crashes and failures anywhere: safety, and the refinement of
\* ReleaseLedger. The runs are symmetric, and no liveness is checked.
SPECIFICATION Spec
CONSTANTS
  Runs = {r1, r2, r3}
  NoRun = noRun
SYMMETRY Symmetry
INVARIANTS
  TypeOK
  SuccessIsRecorded
  SerialRunsKeepRecordCurrent
  LogTellsExit
  NoStrayTemp
PROPERTIES
  KeepsLedger
CHECK_DEADLOCK FALSE
