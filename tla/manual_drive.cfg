SPECIFICATION Spec
CONSTANTS
  a = a
  b = b
  Ids = {a, b}
  Origins = {1}
  Policies = {1, 2}
  HardMax = 2
  Speeds = {2}
  Claims = {"maintenance"}
  Topics = {"cmd_vel"}
  Timeout = 1
  DrainTime = 1
  PrepTimeout = 2
  QueueCap = 2
  SeenCap = 2
  MaxGen = 1
  MaxSeq = 1
  MaxCmds = 2
  PublishOk = {TRUE, FALSE}
INVARIANTS TypeOK MotionIsOwned SessionIsKnown
PROPERTY ReleaseHonoured
SYMMETRY Symmetry
