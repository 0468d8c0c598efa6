SPECIFICATION Spec
CONSTANTS
  Maskable = {"X"}
  Masks = {0}
  Workers = {"w1"}
  MaxSteps = 1
INVARIANT WindowStaysArmed
