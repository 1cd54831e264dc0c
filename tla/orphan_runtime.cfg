SPECIFICATION Spec
CONSTANTS
  Managers = {m1}
  Slots = {s1, s2}
  Clients = {c1}
  Nobody = Nobody
  MaxAttempts = 2
  MaxGeneration = 3
  MaxRequests = 2
  MaxFaults = 1
  FaultKinds = {"crash"}
  Events = {}
SYMMETRY Symmetry
INVARIANTS
  NothingOutlivesTeardown
