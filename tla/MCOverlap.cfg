SPECIFICATION InputsSpec
CONSTANTS
  Workers = {w1, w2}
  Targets <- MCTargets
  Controls <- MCControls
  Durations <- MCDurations
  WordBits = 20
  ENC_WORDS = 20
  ENC_ROUNDS = 4
  DELTA = 489913
  Requests <- MCRequests
  Macs = {66051, 4112}
  expected_mac = 66051
  MaxDatagrams = 2
  MaxEncrypted = 1
  None = None
  Toggles = {r1, r2}
  MaxSaves = 2
SYMMETRY Symmetry
CHECK_DEADLOCK FALSE
INVARIANT TogglesKeepFields
