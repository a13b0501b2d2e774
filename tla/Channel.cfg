SPECIFICATION Spec
CONSTANTS
  w1 = w1
  w2 = w2
  r1 = r1
  r2 = r2
  Writers = {w1, w2}
  Receivers = {r1, r2}
  NBits = 2
  RING_SIZE = 2
  CursorMod = 64
  MaxPush = 3
  MaxConn = 2
  MayDie = {r1, r2}
SYMMETRY Symmetry
CONSTRAINT Followed
INVARIANTS
  ChIntact
  ChUnread
  ChNoStuckMark
CHECK_DEADLOCK FALSE
