CONSTANTS
  MaxRow = 2
  BatchLimit = 2
  MaxFaults = 2
  Poison = {1}
  Conns = {c1, c2}
  NoConn = NoConn
  Operators = {o1}
SPECIFICATION Spec
INVARIANTS
  TypeOK
  AckedIsSettled
  StoredIsAnnounced
  AnnouncedOnce
  RevokedNeverAdmitted
PROPERTIES
  RevokedStaysDark
  ImplementsDelivery
