CONSTANTS
  s1 = s1
  s2 = s2
  Senders <- SendersDef
  MaxSends = 2
  Joinable = {TRUE, FALSE}
SPECIFICATION FairSpec
INVARIANTS
  NoLostWakeup
  
  NothingLeaked
PROPERTIES
  ImplementsOrderedTask
  KeepsGoing
