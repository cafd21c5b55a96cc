CONSTANTS
  Streams = {"meta", "snap"}
  Meta = "meta"
  NumBufs = 3
  WaterMark = 1
  LookBack = 1
  MaxUnmatched = 0
  FrameSkip = 1
  Uses = {"zsl", "live"}
  MaxFrame = 3
  MaxHints = 1
  MaxAsks = 1
  MaxNum = 2
  MaxCmds = 1
SPECIFICATION Spec
INVARIANTS RefsMatchHolders QueueConsistent BundlesAgree 
  ZslEndsWithRequest
 
