CONSTANTS
  Cases <- Shifts
  Values <- MCValues
SPECIFICATION Spec
INVARIANTS TypeOK  ShiftSound CountKept
PROPERTY Terminates
