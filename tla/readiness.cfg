SPECIFICATION Spec
CONSTANTS
  c1 = c1
  c2 = c2
  Source = {c1, c2}
  Plans <- MCPlans
  AgeCap = 301
  OnlineThreshold = 6
  OfflineThreshold = 20
  StallWarning = 30
  DiagnosticRetention = 300
INVARIANTS TypeOK GatesFit StatusIsHonest FaultsAreTold MotionIsOfThisBase
