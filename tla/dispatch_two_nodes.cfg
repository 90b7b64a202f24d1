CONSTANTS
  Nodes = {n1, n2}
  Sockets = {s1, s2}
  Requests = {r1}
  Answers <- OneAnswer
  None = None
SPECIFICATION Spec
SYMMETRY SocketSymmetry
CONSTRAINT AllEnabled
INVARIANTS
  RegistryLive
  PendingConnected
  PendingExact
  Inv
