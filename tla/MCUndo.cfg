SPECIFICATION FreshSpec
CONSTANTS
  Absent = Absent
  Empty = Empty
  Torn = Torn
  NoProc = NoProc
  NoSettings = NoSettings
  Down = Down
  u1 = u1
  u2 = u2
  f1 = f1
  set1 = set1
  set2 = set2
  set3 = set3
  Ep1 = Ep1
  Ep2 = Ep2
  Handlers = {h1, h2}
  Clis = {}
  Ops = {"apply", "restore"}
  URIs = {u1, u2}
  Foreign = {}
  Endpoint <- EndpointsApart
  SettingsVals = {set1}
  Accepted = {set1}
  YamlEdits = {}
  DefaultSettings = set1
  MaxClock = 3
  KeepBackups = 2
  IOErrors = FALSE
  ClockSteps = FALSE
  Crashes = FALSE
INVARIANT SnapshotHoldsLive
CHECK_DEADLOCK TRUE
