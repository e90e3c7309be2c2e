CONSTANTS
  Components = {"windows", "audio", "size", "settings", "text", "webview", "gl", "xbox", "launcher"}
  Mods = {m1, m2}
  Titles = {t1, t2}
  MaxCalls = 3
  MaxSize = 2
  Heights = {1, 4, 5}
  BarHeight = 1
  MaxChanges = 3
  MaxText = 1
  Scales = {0, 1, 2}
  PipeSize = 3
  ReadSize = 3
  MaxWrites = 5
  Programs = {p1, p2}
  Buffers = {b1, b2}
  MaxLinks = 3
  Requests = {r1, r2}
SPECIFICATION FairServicesSpec
INVARIANTS TypesOK TitlesUnique NoStaleCallback StreamKept SettingsKept FullscreenAgrees UrlOnly
           DrawsAsBound OneAnswer StartFits
PROPERTIES ShownDrawn GameHeightFollows GameConverges ShowReturns SignInEnds
CHECK_DEADLOCK FALSE
