CONSTANTS
  MaxRow = 2
  BatchLimit = 2
  MaxFaults = 1
  Poison = {2}
  Conns = {c1, c2}
  NoConn = NoConn
  Operators = {o1}
SPECIFICATION FairSpec
PROPERTIES
  BacklogDrains
  StaysOnline
