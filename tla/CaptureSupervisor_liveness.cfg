CONSTANTS
  Parts = {"capture"}
  Sources = {radio}
  Gps = {}
  Slots = {1, 2}
  Clients = {c1}
  NoSource = NoSource
  NoSlot = NoSlot
  NoProc = NoProc
  MaxRequests = 3
  MaxFaults = 1
  MaxDeaths = 1
  Ingests = {i1}
  AlertMethods = {m1}
  Watched = {"host"}
  Nowhere = Nowhere
  MaxCalls = 1
  MaxUpsets = 0
SPECIFICATION FairPartsSpec
PROPERTIES
  Recovers
