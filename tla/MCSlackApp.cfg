CONSTANTS
  user1 = user1
  user2 = user2
  nick1 = nick1
  noValue = noValue
  None = noValue
  Users = {user1, user2}
  DeviceIds <- MCDeviceIds
  Labels = {nick1}
  Rank <- MCRank
  MaxHomeDevices = 1
  Faults = {"write", "delete", "kv", "read", "load", "call"}
  MaxFaults = 1
  MaxNetChanges = 2
  MaxStarts = 2
  MaxClicks = 6
  MaxInbox = 2
SPECIFICATION Spec
SYMMETRY Symmetry
INVARIANTS
  TypeOK
  ForgottenStaysForgotten
  
  HomeIsCurrentOrExcused
PROPERTIES
  ChangesAreAsked
CHECK_DEADLOCK FALSE
