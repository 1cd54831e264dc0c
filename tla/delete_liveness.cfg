\* Permanent delete, with one crash or one failing call.
SPECIFICATION FairSpec
CONSTANTS
  Managers = {m1}
  Slots = {s1, s2}
  Clients = {c1}
  Nobody = Nobody
  MaxAttempts = 1
  MaxGeneration = 4
  MaxRequests = 2
  MaxFaults = 1
  FaultKinds = {"crash", "error"}
  Events = {"delete"}
PROPERTIES
  TeardownHappens
  DeletionHappens
