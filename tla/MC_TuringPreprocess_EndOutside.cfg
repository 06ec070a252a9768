CONSTANTS
  Scripts <- EndOutside
  Names = {"f", "g", "d"}
  MaxLines = 40
  MaxTrue = 2
  RefFuel = 16
  FlatFuel = 48
SPECIFICATION Spec
CONSTRAINT WithinMaxLines
INVARIANT NoUndefinedBehaviour
CHECK_DEADLOCK FALSE
