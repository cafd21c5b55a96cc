SPECIFICATION ESpec
CONSTANTS
  Settings <- MCFour
  HalCallsFail = FALSE
  EarlyRestart = FALSE
  Commands <- MCPlain
  KeepMode = TRUE
  MaxPending = 2
INVARIANTS
  
  PicturesOwnTheirChannels
VIEW EView
