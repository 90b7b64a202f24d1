CONSTANTS
  Nodes = {n1}
  Sockets = {s1, s2}
  Requests = {r1}
  Answers <- OneAnswer
  None = None
SPECIFICATION Spec
SYMMETRY SocketSymmetry
INVARIANTS
  ReconnectKeepsRegistration
