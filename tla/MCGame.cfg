CONSTANTS
  d1 = d1
  d2 = d2
  ip1 = ip1
  v1 = v1
  noValue = noValue
  DeviceIds <- MCDeviceIds
  Ips = {ip1}
  None = noValue
  Vendors = {v1}
  MissLimit = 2
  IdleSweepsUntilSleepy = 2
  XpNewDevice = 10
  XpFeed = 5
  FeedCooldownSecs = 2
  JuvenileXp = 10
  AdultXp = 20
  ElderXp = 30
  NetworkDetectiveThreshold = 2
  NightWatchStreak = 3
  MaxTime = 3
  MaxStreak = 4
SPECIFICATION Spec
SYMMETRY Symmetry
INVARIANTS
  TypeOK
  XpIsEarned
  MoodTellsPresence
PROPERTIES
  NightWatchEarned
  ChangesAreRendered
