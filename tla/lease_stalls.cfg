\* Two managers, handlers held up past the end of their lease.
SPECIFICATION Spec
CONSTANTS
  Managers = {m1, m2}
  Slots = {s1}
  Clients = {c1}
  Nobody = Nobody
  MaxAttempts = 2
  MaxGeneration = 2
  MaxRequests = 2
  MaxFaults = 1
  FaultKinds = {"error", "crash", "stall", "container"}
  Events = {"access"}
SYMMETRY Symmetry
INVARIANTS
  TypeOK
PROPERTIES
  ContractHolds
