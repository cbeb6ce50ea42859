CONSTANTS
  idA = idA
  idB = idB
  nameA = nameA
  noValue = noValue
  None = noValue
  Refs <- MCRefs
  IdOf <- MCIdOf
  InitialRef = idA
  Failures = {"post", "answer", "kv", "crash"}
  MaxMessages = 2
  MaxMisreads = 1
  MaxReconfigs = 1
  Modes = {"mock", "hardware", "invalid"}
  InitialMode = "mock"
  HasHardware = TRUE
  Tables = 3
  Seeds = 2
  ScriptLength = 2
  StartLimitBurst = 3
  HeartbeatTimeout = 1
  StartFaults = {"open", "import", "socket", "crash"}
  MaxFaults = 2
  MaxStops = 1
SPECIFICATION SSpec
PROPERTY
  MigrationsRunOnce
CHECK_DEADLOCK FALSE
