SPECIFICATION Spec
CONSTANTS
  Artifacts = {1, 2}
  Entries = {e1}
  Exits = {x1}
  Power = 1
  KeySelected = TRUE
  Procs = {r1, r2}
  MaxFaults = 1
INVARIANTS
  TypeOK
  
  
PROPERTIES
  SettledIsFinal
CONSTRAINT Whole
SYMMETRY Symmetry
CHECK_DEADLOCK FALSE
