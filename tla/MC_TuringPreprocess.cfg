CONSTANTS
  Scripts <- MCScripts
  Names = {"f", "g", "d"}
  MaxLines = 40
  MaxTrue = 2
  RefFuel = 16
  FlatFuel = 48
SPECIFICATION Spec
CONSTRAINT WithinMaxLines
INVARIANTS PreTypeOK AcceptsWellFormed FlatMatchesStructured 
CHECK_DEADLOCK FALSE
