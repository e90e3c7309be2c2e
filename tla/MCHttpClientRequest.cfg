CONSTANTS
  MaxSetters = 2
  MaxUpload = 3
  MaxDownload = 3
SPECIFICATION FairSpec
INVARIANTS BodiesWhole AnsweredOnce
PROPERTY Answered
CHECK_DEADLOCK FALSE
