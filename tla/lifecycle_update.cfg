SPECIFICATION Spec
CONSTANTS
  Noise = {noise1, noise2}
  Arrivals = {"sync"}
  Faults = {"command"}
INVARIANTS
  MaskedIsRecorded
