SPECIFICATION Spec
CONSTANTS
  Faults = {"link"}
  MaxSaves = 2
PROPERTIES
  EvidenceKept
