CONSTANTS
  MaxSetters = 2
  MaxUpload = 3
  MaxDownload = 3
SPECIFICATION Spec
INVARIANT NoDanglingUse
CHECK_DEADLOCK FALSE
