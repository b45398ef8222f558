SPECIFICATION FairSpec
CONSTANTS
  Command = {c1, c2}
  Kinds <- AllKinds
  Contexts = {x1, x2}
  CancelKinds <- ActionKinds
  PathService = TRUE
  None = None
INVARIANTS
  TypeOK
  MapCancelDelivered
  LidarUnknownHolds
  PathIsCurrent
PROPERTIES
  StopsAreAnswered
