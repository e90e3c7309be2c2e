CONSTANTS
  PongsInside = FALSE
  MaxMessages = 2
  MaxChunks = 3
  MaxWire = 3
SPECIFICATION FairSpec
INVARIANT DeliveredWhole
PROPERTIES PromiseKept DisconnectCloses
CHECK_DEADLOCK FALSE
