SPECIFICATION Spec
CONSTANTS
  p1 = p1
  p2 = p2
  Caller = {p1, p2}
  Rows = 2
  Room = 2
  MaxSamples = 2
  Limit = 2
  MaxConn = 3
  Plans = {"browser", "recorder"}
INVARIANTS TypeOK BrowserCatchesUp StopCountsEverything
SYMMETRY Symmetry
