SPECIFICATION MCFairSpec
CONSTANTS
  Tests = {t1}
  Polls = {p1}
  proxied = proxied
  bypass = bypass
  tun1 = tun1
  tun2 = tun2
  exit1 = exit1
  Configs <- MCConfigs
  TypeOf <- MCTypeOf
  TunOf <- MCTunOf
  ExitOf <- MCExitOf
  TunNames = {tun1, tun2}
  Addrs = {w1}
  Around = Around
  NoConfig = NoConfig
  Down = Down
  Offline = Offline
  Page = Page
  NoAddr = NoAddr
  NoName = NoName
  reachTimeout = 3
  directTimeout = 5
  tunnelTimeout = 8
  Grace = 2
  WriteTimeout = 45
  VersionTime = 25
INVARIANTS
  TypeOK
  OkMeansWorks
  WorksMeansOk
  AnsweredInTime
PROPERTY
  EveryRequestEnds
CHECK_DEADLOCK TRUE
