CONSTANTS
  Values <- MCValues
  NameArgs <- MCNameArgs
  PathArgs <- MCPathArgs
  NewPaths <- MCNewPaths
  NamePats <- MCNamePats
  PathPats <- MCPathPats
  CopyPaths <- MCCopyPaths
  IterPrefix = "N"
  MaxIndex = 2
  MaxPathIndex = 1
SPECIFICATION Spec
CONSTRAINT WithinMaxIndex
INVARIANT DataTypeOK
INVARIANT IterationComplete
INVARIANT FreshNeverOverwrites
PROPERTY EntriesPersist
