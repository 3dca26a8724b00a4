CONSTANTS
  NULL = NULL
  Process = {p1, p2}
  Name = {a, b}
  Sectors = 5
  DirSlots = 2
  MaxLength = 2
  MaxFiles = 1
  MaxFailures = 2
  Quiet = TRUE
SPECIFICATION Spec
SYMMETRY Symmetry
CHECK_DEADLOCK FALSE
  
PROPERTIES ExecutablesUnwritten
