CONSTANTS
  Fns <- MCFns
  Main = "main"
  Size <- MCSize
  Live <- LiveDEBC
  NParams <- MCNParams
  FpNeeded <- WithFp
  Nested <- NestedLocals
  Alloca <- MCAlloca
  CallSaved <- SavedDEBC
  Modes = {"HI", "SI"}
  Vals = {7}
  ArgVals = {8}
  Sites <- MCSites
  StartRa = 99
  DynSizes = {1}
  Top = 24
  Bottom = 0
  MaxOut = 2
  MaxDyn = 1
  MaxDepth = 3
SPECIFICATION Spec
INVARIANTS ReturnIntegrity LocalsSurvive
PROPERTIES CallerRestored
