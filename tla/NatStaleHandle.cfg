SPECIFICATION Spec
CONSTANTS
  c1 = c1
  c2 = c2
  c3 = c3
  i = i
  j = j
  Conn <- Conns
  Ip = {i, j}
  Private <- Privates
  Subnet = {i, j}
  Alg = {c3}
  PubIp = {1, 2}
  MaxEntries = 3
  MaxTemp = 2
  MaxHandle = 3
INVARIANT NoStaleHandle
