CONSTANTS
  n1 = n1
  n2 = n2
  n3 = n3
  frontgate = frontgate
  garage = garage
  Ids = {frontgate, garage}
  Nodes = {n1, n2, n3}
  Claims <- Twins
  Keys = {k1, k2}
  NoKey = NoKey
  Slots = {s1}
  Operators = {o1}
  NoId = NoId
  MaxRekeys = 1
SPECIFICATION Spec
SYMMETRY Symmetry
CONSTRAINT RekeyedAlone
INVARIANTS
  StoredKeyWasClaimed
PROPERTIES
  ApprovedPairFixed
  DeadStaysDead
  ShutSinceStart
