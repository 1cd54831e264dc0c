\* One manager, two handlers at once, two clients, nothing fails.
SPECIFICATION Spec
CONSTANTS
  Managers = {m1}
  Slots = {s1, s2}
  Clients = {c1, c2}
  Nobody = Nobody
  MaxAttempts = 1
  MaxGeneration = 4
  MaxRequests = 3
  MaxFaults = 0
  FaultKinds = {}
  Events = {"run", "access", "lifetime", "idle", "quota", "delete", "purge"}
SYMMETRY Symmetry
INVARIANTS
  StatusIsTruthful
  NothingOutlivesTeardown
PROPERTIES
  PurgeLeavesNothing
