CONSTANTS
  Manuals = {m1}
  Faults = {"start", "self", "kill", "reboot", "plan", "save", "suspend", "restore", "command"}
SPECIFICATION FairSpec
INVARIANTS TypeOK OneCycle RestoreQuiesces
PROPERTIES TakesTurns AbortStartsNothing CycleComes RestoreEnds
