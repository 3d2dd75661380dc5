CONSTANTS
  MaxRow = 1
  BatchLimit = 1
  MaxFaults = 1
  Poison = {}
  Conns = {c1}
  NoConn = NoConn
  Operators = {o1}
SPECIFICATION Spec
INVARIANTS
  SoundRowsAreStored
