SPECIFICATION Spec
CONSTANTS
  Managers = {m1}
  Slots = {s1, s2}
  Clients = {c1}
  Nobody = Nobody
  MaxAttempts = 1
  MaxGeneration = 3
  MaxRequests = 2
  MaxFaults = 1
  FaultKinds = {"error"}
  Events = {"access"}
SYMMETRY Symmetry
INVARIANTS
  StoppedHasNoAccess
