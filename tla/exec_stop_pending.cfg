SPECIFICATION Spec
CONSTANTS
  Command = {c1, c2}
  Kinds <- NavStop
  Contexts = {x1}
  CancelKinds = {"set_initial_pose"}
  PathService = FALSE
  None = None
SYMMETRY Symmetry
INVARIANTS
  StopIsTrue
