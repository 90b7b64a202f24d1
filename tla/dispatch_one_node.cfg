CONSTANTS
  Nodes = {n1}
  Sockets = {s1, s2}
  Requests = {r1}
  Answers <- AllAnswers
  None = None
SPECIFICATION FairSpec
INVARIANTS
  TypeOK
  TruthfulResult
PROPERTIES
  KeepsPromise
  CommandEnds
  GoneIsForgotten
