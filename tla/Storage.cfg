CONSTANTS
  Size = 3
  Segments = 2
  Servers <- MCServers
  PersistEvery = 2
  MaxVersions = 2
  MaxFetches = 2
  MaxKills = 1
  c1 = c1 c2 = c2 a1 = a1 a2 = a2 w1 = w1 w2 = w2
  t1 = t1 t2 = t2 t3 = t3 post = post
  Contents <- MCContents
  Ids <- MCIds
  Accounts <- MCAccounts
  Putters <- MCPutters
  Readers = {r1}
  NoContent = NoContent
  NoAccount = NoAccount
  MaxPuts = 2
  MaxRecords = 1
  MaxReads = 1
  MaxRot = 1
  MaxRestarts = 1
  DPosts = {post}
  Triggers <- MCTriggers
  Registered <- MCRegistered
  Attempts = 2
  DReleases = 1
SPECIFICATION Spec
SYMMETRY MCSymmetry
INVARIANTS ResumeSound PublishedWhole AckedReadable ServedIsRight DispatchedOnce
CHECK_DEADLOCK FALSE
