SPECIFICATION Spec
CONSTANTS
  Faults = {"path", "link", "sync", "kill", "crash"}
  MaxSaves = 4
INVARIANTS
  TypeOK
  AckedSurvives
  OneDamageOneSave
PROPERTIES
  LoadHonest
  SaveKeepsEvidence
  IsRegister
