SPECIFICATION AppSpec
CONSTANTS
  Issues = {a, b, c}
  Writers = {w1, w2}
  Cycles = {k1, k2, k3}
  Planners = {p1, p2}
  NoIssue = NoIssue
  NoCycle = NoCycle
  Given = {"backlog", "done"}
  Days = {1, 2, 3, 4}
  Referenced = b
  MaxEvents = 3
  MaxDeliveries = 3
  MaxChanges = 2
  MaxRelations = 3
  Browsers = {b1, b2}
  SecondTab = t2
  MaxSeconds = 3
  MaxFailures = 2
  Pages = {u1, u2}
  Topics = {i1, i2}
  Clients = {c1, c2, c3}
  NoTopic = NoTopic
  NoClient = NoClient
  Buffer = 2
  MaxMoves = 3
  Assets = {a1, a2}
  Importers = {m1, m2}
  NoImporter = NoImporter
  MaxEdits = 2
  MaxTransferFaults = 2
  People = {x, y}
  Creator = x
  MaxNotices = 3
  MaxNews = 2
  MaxActs = 1
  Explored <- BulkPlanning
PROPERTY FinishedWorkStays
CHECK_DEADLOCK FALSE
