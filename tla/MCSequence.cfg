SPECIFICATION FreshSerialSpec
CONSTANTS
  Absent = Absent
  Empty = Empty
  Torn = Torn
  NoProc = NoProc
  NoSettings = NoSettings
  Down = Down
  u1 = u1
  u2 = u2
  f1 = f1
  set1 = set1
  set2 = set2
  set3 = set3
  Ep1 = Ep1
  Ep2 = Ep2
  Handlers = {h1}
  Clis = {c1}
  Ops = {"apply", "settings", "restore", "delete", "cli"}
  URIs = {u1}
  Foreign = {f1}
  Endpoint <- EndpointsApart
  SettingsVals = {set1, set2, set3}
  Accepted = {set1, set2}
  YamlEdits = {set3}
  DefaultSettings = set1
  MaxClock = 2
  KeepBackups = 1
  IOErrors = TRUE
  ClockSteps = FALSE
  Crashes = TRUE
INVARIANTS TypeOK LastGoodRecoverable SettingsAgree ReplyTrue ReplyNamesBackup
CHECK_DEADLOCK TRUE
VIEW EssentialView
