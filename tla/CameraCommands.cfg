SPECIFICATION ESpec
CONSTANTS
  Settings <- MCAll
  HalCallsFail = TRUE
  EarlyRestart = FALSE
  Commands <- MCFixed
  KeepMode = FALSE
  MaxPending = 2
INVARIANTS
  PreviewConsistent
  WantedFramesComeBack
  VideoRunsWhileRecording
VIEW EView
