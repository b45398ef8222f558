SPECIFICATION FairSpec
CONSTANTS
  a = a
  b = b
  Ids = {a}
  Origins = {1, 2}
  Policies = {1}
  HardMax = 1
  Speeds = {1}
  Claims = {}
  Topics = {"cmd_vel"}
  Timeout = 1
  DrainTime = 1
  PrepTimeout = 2
  QueueCap = 2
  SeenCap = 2
  MaxGen = 3
  MaxSeq = 0
  MaxCmds = 2
  PublishOk = {TRUE}
PROPERTY NothingHangs
