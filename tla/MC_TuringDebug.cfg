CONSTANTS
  Funcs <- MCFuncs
  Natives <- MCNatives
  Body <- MCBody
  NatRes <- MCNatRes
  Entry = "main"
  DepthLimit = 3
  TimeLimit = 0
  PreemptionDelay = 0
  InitBreaks <- MCInitBreaks
  BreakLocs <- MCNoBreakLocs
  ReloadSuspended = TRUE
  MaxTick = 1
  MaxGen = 1
  InterleaveOps <- MCInterleaveOps
  MaxDebug = 1
  HostChecksCursor = TRUE
  MaxFrames = 2
SPECIFICATION DSpec
INVARIANTS
  DebugTypeOK
  KeptChainMirrorsCalls
  DebugResumable
VIEW DebugView
