CONSTANTS
  Funcs <- MCFuncs
  Natives <- MCNatives
  Body <- MCBody
  NatRes <- MCNatRes
  Entry = "main"
  DepthLimit = 3
  TimeLimit = 2
  PreemptionDelay = 1
  InitBreaks <- MCInitBreaks
  BreakLocs <- MCBreakLocs
  ReloadSuspended = TRUE
  MaxTick = 3
  MaxGen = 1
SPECIFICATION Spec
INVARIANT
  NoStaleExecution
