SPECIFICATION Spec
CONSTANTS
  Noise = {noise1, noise2}
  Arrivals = {noise2}
  Faults = {"command", "query", "write", "kill", "damage"}
INVARIANTS
  TypeOK
  RestoreFaithful
  MaskedIsCovered
  ChoicesAreOriginal
  Repeatable
