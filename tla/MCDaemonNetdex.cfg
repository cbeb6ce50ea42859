CONSTANTS
  d1 = d1
  d2 = d2
  ip1 = ip1
  v1 = v1
  user1 = user1
  user2 = user2
  nick1 = nick1
  tank = tank
  noValue = noValue
  DeviceIds <- OneDevice
  Ips = {}
  None = noValue
  Vendors = {v1}
  VendorOf <- OneVendor
  Catalogue = {v1}
  MissLimit = 2
  IdleSweepsUntilSleepy = 2
  XpNewDevice = 10
  XpFeed = 5
  FeedCooldownSecs = 2
  JuvenileXp = 10
  AdultXp = 20
  ElderXp = 30
  NetworkDetectiveThreshold = 2
  NightWatchStreak = 3
  Users = {}
  Tank = tank
  HasLiveTank = FALSE
  Labels = {}
  PruneGoneAfter = 1
  HeartbeatTimeout = 1
  Commands = {}
  Faults = {}
  MaxLag = 0
  MaxTime = 2
  MaxStreak = 2
  MaxStarts = 2
  MaxForgets = 1
  MaxRenames = 0
SPECIFICATION Spec
SYMMETRY Symmetry
INVARIANTS
  NetdexRebuilt
CHECK_DEADLOCK FALSE
