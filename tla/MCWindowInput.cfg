CONSTANTS
  Keys = {"k"}
  Fingers = {"f", "g"}
  Pads = {"p"}
  Settings <- MCSettings
  MaxBatch = 2
  MaxQueue = 3
SPECIFICATION Spec
INVARIANTS
  SticksFresh
  ButtonsAgree
  CursorFollowsMode
  NothingStuck
  OtherFingersFollow
