SPECIFICATION Spec
CONSTANTS
  Maskable = {"Lmb", "X", "Y"}
  Masks = {0}
  Workers = {"w1"}
  MaxSteps = 2
INVARIANT DeviceFollowsMasks
PROPERTIES PumpsWhileMasked WaitsEnd
