CONSTANTS
  MaxRequests = 2
  MaxResponses = 2
  MaxRestarts = 1
  Prompt = {TRUE, FALSE}
SPECIFICATION FairSpec
INVARIANTS
  SessionHasThread
  EachRequestOnce
  PromptAnswersAreOwn
PROPERTIES
  RequestsEnd
CHECK_DEADLOCK FALSE
