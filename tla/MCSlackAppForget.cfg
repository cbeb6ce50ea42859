CONSTANTS
  user1 = user1
  user2 = user2
  nick1 = nick1
  noValue = noValue
  None = noValue
  Users = {user1}
  DeviceIds <- MCDeviceIds
  Labels = {nick1}
  Rank <- MCRank
  MaxHomeDevices = 1
  Faults = {}
  MaxFaults = 0
  MaxNetChanges = 2
  MaxStarts = 2
  MaxClicks = 6
  MaxInbox = 2
SPECIFICATION Spec
INVARIANTS
  ForgetsCompletely
CHECK_DEADLOCK FALSE
