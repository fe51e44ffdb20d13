CONSTANTS
  H = 2
  Cases <- LongNe
  Owned0 = {FALSE}
SPECIFICATION Spec
INVARIANT BranchCorrect
