CONSTANTS
  d1 = d1
  d2 = d2
  ip1 = ip1
  v1 = v1
  user1 = user1
  user2 = user2
  nick1 = nick1
  tank = tank
  noValue = noValue
  DeviceIds <- TwoDevices
  Ips = {}
  None = noValue
  Vendors = {v1}
  VendorOf <- OneVendor
  Catalogue = {v1}
  MissLimit = 3
  IdleSweepsUntilSleepy = 2
  XpNewDevice = 10
  XpFeed = 5
  FeedCooldownSecs = 2
  JuvenileXp = 10
  AdultXp = 20
  ElderXp = 30
  NetworkDetectiveThreshold = 2
  NightWatchStreak = 3
  Users = {}
  Tank = tank
  HasLiveTank = FALSE
  Labels = {nick1}
  PruneGoneAfter = 1
  HeartbeatTimeout = 1
  Commands = {}
  Faults = {}
  MaxLag = 1
  MaxTime = 2
  MaxStreak = 2
  MaxStarts = 3
  MaxForgets = 1
  MaxRenames = 1
SPECIFICATION HSpec
SYMMETRY Symmetry
INVARIANTS
  TypeOK
  RowsFollowMemory
  NeverGoneEarly
  ForgottenStaysForgotten
PROPERTIES
  PruneSparesTheHeard
CHECK_DEADLOCK FALSE
