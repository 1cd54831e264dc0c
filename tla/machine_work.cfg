SPECIFICATION WorkSpec
CONSTANTS
  MaxGeneration = 3
  Workloads = {{"browsers", "lifecycle"}, {"terminals", "lifecycle"},
               {"autonomous", "lifecycle"}, {"interactive", "lifecycle"}, {"autonomous", "interactive"},
               {"autonomous", "failures"}, {"autonomous", "crashes"}, {"interactive", "crashes"},
               {"checkouts", "lifecycle", "failures"}, {"checkouts", "lifecycle", "crashes"},
               {"snapshots", "lifecycle", "failures"}, {"snapshots", "lifecycle", "fleet"}, {"fleet"}}
  Tickets = {b1, s1}
  TerminalTickets = {s1}
  Gateways = {g1, g2}
  MaxEpoch = 1
  CloseAttempts = 2
  Runs = {r1, r2}
  Interactive = {r2}
  SameProcess = {TRUE, FALSE}
  NoRun = NoRun
  RunAttempts = 2
  MaxRunFaults = 1
  Requests = {q1, q2}
  First = First
  CheckoutAttempts = 2
  MaxCheckoutFaults = 1
  Fleet = {u1, u2}
  SnapshotManagers = {m1, m2}
  SnapshotAttempts = 2
  MaxLapses = 2
  Quota = 1
INVARIANTS
  WorkTypeOK
  TicketOpensOnce
  SessionsEndWithTheirEpoch
  ClosedTerminalIsSilent
  StartsOnce
  EndedRunLeavesNothing
  UsedEnvironmentIsReady
  DeletedLeavesNoImage
  DeletedWorkspaceLeavesNothing
PROPERTIES
  
  EndedRunKeepsItsStatus
  
  CheckoutSettles
  ReadyStaysReady
  SnapshotSettles
  QuotaIsKept
CHECK_DEADLOCK FALSE
