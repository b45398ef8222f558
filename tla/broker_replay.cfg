SPECIFICATION Spec
CONSTANTS
  c1 = c1
  c2 = c2
  c3 = c3
  i1 = i1
  i2 = i2
  i3 = i3
  alice = alice
  bob = bob
  None = None
  Client = {c1, c2, c3}
  ReadOnly = {}
  User <- Users
  Id = {i1, i2}
  kind <- NavLidar
  SeenMax = 1
  MaxRestarts = 1
INVARIANTS OnceAtBothEnds HolderSends
