SPECIFICATION Spec
CONSTANTS
  Command = {c1, c2, c3}
  Kinds <- MotionKindsRun
  Contexts = {x1}
  CancelKinds <- ActionKinds
  PathService = FALSE
  None = None
SYMMETRY Symmetry
INVARIANTS
  OneMotionOwner
  AnsweredOnce
  NoStopForgotten
  StopsReachTheirGoals
PROPERTIES
  UndockOwnerKept
