CONSTANTS
  d1 = d1
  d2 = d2
  ip1 = ip1
  ip2 = ip2
  noValue = noValue
  DeviceIds <- MCDeviceIds
  Ips <- MCIps
  Timestamps <- MCTimestamps
  None = noValue
  MissLimit = 3
SPECIFICATION FairSpec
INVARIANTS
  TypeOK
  RowsTrackMemory
PROPERTIES
  ImplementsTracker
  SilentDevicesGo
