SPECIFICATION Spec
CONSTANTS
  FailureThreshold = 2
  UnansweredThreshold = 2
  MaxSessions = 2
  MaxPending = 2
INVARIANTS TypeOK TeardownIsClean SilentDeviceIsLeftAlone
PROPERTIES StrikeOutOnlyOnHeartbeats ImplementsLink NothingHangs
