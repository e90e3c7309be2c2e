CONSTANTS
  PongsInside = TRUE
  MaxMessages = 2
  MaxChunks = 3
  MaxWire = 3
SPECIFICATION Spec
INVARIANT DeliveredWhole
CHECK_DEADLOCK FALSE
