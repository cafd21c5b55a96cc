CONSTANTS
  a1 = a1  a2 = a2  e1 = e1  e2 = e2  b1 = b1  w1 = w1  w2 = w2
  AtlClients <- MCAtl
  EsClients <- MCEs
  BitClients <- MCBit
  WifiClients <- MCWifi
  Casts <- MCCasts
  Patience <- MCBoth
  MaxRequests = 3
  MaxQueue = 3
SPECIFICATION FairSpec
INVARIANTS
  StateMatchesSubscribers
  InStepWithOpener
  ClientsAreRight
PROPERTIES
  ClientsAnswered
CHECK_DEADLOCK FALSE
