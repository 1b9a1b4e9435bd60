CONSTANTS
  j1 = j1 j2 = j2 o1 = o1 o2 = o2
  m1 = m1 m2 = m2 v1 = v1 v2 = v2
  BusBuffer = 1
  OutBuffer = 1
  MaxEvents = 4
  Jobs = {j1, j2}
  Nameless = {j1, j2}
  Pollers = {o1, o2}
  Reports <- MCReports
  MaxDeliveryRetries = 1
  Metrics = {m1, m2}
  Reservers = {v1, v2}
  Wants <- MCWants
  Limits = {0, 2, 3}
  Rates <- MCRates
  BaseFee = 5
  Half = 128
  MaxTimestamp = 1
  MaxReservations = 2
  PostIds = {1, 2, 3}
  Messages <- MCMessages
  SystemAuthors = {"bot"}
  Runes = {"a", "b", "#", " "}
  TagChars = {"a", "b"}
  Text <- MCText
  MaxFeed = 4
  Files = {"engine.go", "engine_test.go", "guide.md"}
  Language <- MCLanguage
  Versions <- MCVersions
  Similarities = {0, 1, 2}
  MinScore = 100
  TopK = 3
  Hash <- MCHash
SPECIFICATION Spec
INVARIANTS CompletedOnce MeteredOnce Assembled Searched
PROPERTIES StreamEnds JobsReported
CHECK_DEADLOCK FALSE
