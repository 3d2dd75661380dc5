SPECIFICATION PartsSpec
CONSTANTS
  Parts = {"capture", "alerts"}
  Sources = {gps1, gps2, radio}
  Gps = {gps1, gps2}
  Slots = {1, 2}
  Clients = {c1, c2}
  NoSource = NoSource
  NoSlot = NoSlot
  NoProc = NoProc
  MaxRequests = 2
  MaxFaults = 1
  MaxDeaths = 1
  Ingests = {i1, i2}
  AlertMethods = {m1}
  Watched = {"host", "emitter"}
  Nowhere = Nowhere
  MaxCalls = 3
  MaxUpsets = 1
SYMMETRY Symmetry
INVARIANTS
  SessionCoversRunning
  OneLocationSource
  ReportsAreTrue
  CrossingsAreTold
