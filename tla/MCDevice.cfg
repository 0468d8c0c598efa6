SPECIFICATION Spec
CONSTANTS
  Maskable = {"X"}
  Masks = {0, 1}
  Workers = {"w1"}
  MaxSteps = 2
INVARIANTS
  TypeOK
  EventsRebuildMask
  OneStalePacket
