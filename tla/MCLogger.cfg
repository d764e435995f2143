SPECIFICATION FairSpec
CONSTANTS
  p1 = p1  p2 = p2  t1 = t1  t2 = t2
  Procs = {p1, p2}
  Threads = {t1, t2}
  ProcOf <- TwoEngines
  Mixes <- Languages
  Paths = {f}
  MaxLogs = 2
INVARIANTS
  TypeOK
  RedirectedUnderLock
  OffMeansRestored
  ReportOnConsole
  LoggerIsLive
PROPERTY
  LockIsGranted
