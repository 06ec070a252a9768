CONSTANTS
  Funcs <- MCFuncs
  Natives <- MCNatives
  Body <- MCBody
  NatRes <- MCNatRes
  Entry = "main"
  DepthLimit = 3
  TimeLimit = 0
  PreemptionDelay = 0
  InitBreaks <- MCInitBreaks
  BreakLocs <- MCNoBreakLocs
  ReloadSuspended = TRUE
  MaxTick = 1
  MaxGen = 1
  InterleaveOps <- MCInterleaveOps
  MaxDebug = 2
  HostChecksCursor = TRUE
  MaxFrames = 3
SPECIFICATION DSpec
INVARIANT
  DebugScopesLive
VIEW DebugView
