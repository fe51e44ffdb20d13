CONSTANTS
  MaxSource = 3
  MaxFaults = 3
SPECIFICATION Spec
INVARIANTS TypeOK MarkerHonest CleanRunFresh
PROPERTY Recovers
