SPECIFICATION ASpec
CONSTANTS
  Settings <- MCModes
  HalCallsFail = FALSE
  EarlyRestart = FALSE
  Callers = {c1, c2}
  Calls <- MCRecording
  MaxCalls = 4
  FlashNeeded = TRUE
  RetroSnapshots = TRUE
  DaemonMayDie = TRUE
  MayClose = TRUE
INVARIANTS
  EachCallAnsweredOnce
  
PROPERTIES
  WaitsEnd
  PicturesEnd
CHECK_DEADLOCK FALSE
