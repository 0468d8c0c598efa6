SPECIFICATION Spec
CONSTANTS
  Procs = {d1, d2}
  Ports = {8888}
  NoProc = NoProc
  Garbage = Garbage
  MaxErrors = 1
INVARIANTS TypeOK FilesAreTrue
PROPERTIES TurnedAwayOnlyInRaces SomeoneServes
