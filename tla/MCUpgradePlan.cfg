\* Three operators submit plans, with deletions, conflicts and lost answers.
SPECIFICATION Spec
CONSTANTS
  Operators = {o1, o2, o3}
  NoOperator = nobody
  MaxRevision = 5
SYMMETRY Symmetry
INVARIANTS
  TypeOK
  ScheduledWasSubmitted
  OutcomeIsTold
PROPERTIES
  NoBlindOverwrite
  SubmitsAtomically
CHECK_DEADLOCK FALSE
