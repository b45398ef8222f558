SPECIFICATION FairSpec
CONSTANTS
  s1 = s1
  s2 = s2
  auto1 = auto1
  auto2 = auto2
  c1 = c1
  c2 = c2
  t1 = t1
  None = None
  Client = {c1, c2}
  Start = {s1, s2}
  From <- MCFrom
  Stop = {t1}
  AutoStop <- MCAutoStop
  Caps = {"robot_tuning_v1"}
  RawPolicy <- MCRawPolicy
  Speed = {1, 2}
  HardMax = 2
  MaxAge = 1
  Tolerance = 0
  Base = {0}
  Budgets <- MCBudgets
  MaxBusy = 2
CHECK_DEADLOCK FALSE
INVARIANTS TypeOK OneSessionAtTheRobot ClosedIsSound
PROPERTIES NoDriveAfterZero LostAuthorityEnds
