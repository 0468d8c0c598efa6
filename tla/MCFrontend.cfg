SPECIFICATION Spec
CONSTANTS
  Ports = {p1, p2}
  NoPort = NoPort
  PagePort = p1
  FAILURE_THRESHOLD = 3
  MAX_EVENTS = 4
  Polls = {1, 2}
  QUOTA_BYTES = 1
  BUFFERED_LINES = 1
  WINDOW = 1
  DayLength = 2
  StartTime = 3
  MaxTime = 4
  MaxLines = 3
  OldFiles <- MCOldFiles
INVARIANTS TypeOK PageIsHonest
PROPERTIES OnlySpareLogsGo PartsSettle
