CONSTANTS
  noValue = noValue
  DeviceIds <- MCDeviceIds
  OurMac <- MCOurMac
  Macs <- MCMacs
  Ips <- MCLeases
  Leases <- MCLeases
  Routers <- MCDeviceIds
  Forwarded <- MCForwarded
  None = noValue
  MissLimit = 2
  AddressBits = 4
  MaxSweepHosts = 8
  Network = 3
  PrefixLen = 1
  OurIp = 1
  ChannelSize = 1
  SocketSize = 1
  MaxMoves = 1
SPECIFICATION FairSpec
INVARIANTS
  TypeOK
  NeverSightsItself
PROPERTIES
  ProbesCoverTheSubnet
  AnsweringCostsNothing
  SuspectsAreRetried
  ResidentsAreAsked
  LeaversGo
  AddressSettles
