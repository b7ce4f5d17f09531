CONSTANTS
  Procs = {p1, p2, p3}
  Values = {a, b}
  a = a  b = b
  Nobody = Nobody
  Partial = Partial
  Timeouts <- MCTimeouts
  Jitters <- MCJitters
  MaxSlept = 3000
  Paths = {"file"}
  Contents <- MCContents
  Size <- MCSize
  Head <- MCHead
  Empty = "empty"
  MaxClock = 3
  Absent = Absent
  NoEntry = NoEntry
  NoStat = NoStat
  None = None
SPECIFICATION PartsSpec
INVARIANTS MutualExclusion AtomicUpdates CruftRemoved RetriesAsTold NoEditMissed
  NothingNeededPruned RestoresGeometry AnswersRight FetchRight
PROPERTIES EveryRequestTells
