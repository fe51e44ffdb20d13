CONSTANTS
  H = 2
  Cases <- Sound
  Owned0 = {TRUE, FALSE}
SPECIFICATION Spec
INVARIANTS TypeOK BranchSound
