\* A camera and the goroutine that compares, without calls; a task gives up once.
SPECIFICATION HostSpec
CONSTANTS
  Servers = {"local"}
  Default = "local"
  MaxConnects = 1
  Rows = {}
  StartOf <- MCStartOf
  Batch = 1
  Target = 1
  MaxClock = 0
  MaxPassCrashes = 0
  Cameras = {"c1"}
  Enablers = {}
  Disablers = {}
  MaxFailures = 1
  MaxRestarts = 0
  OnvifDevices = {}
  MaxSaves = 0
  MaxDbErrors = 0
  Publishers = {}
  ModeSetters = {}
  MaxServerDeaths = 0
  Adders = {}
  Deleters = {}
  Removers = {}
  OldDevices = {}
  Callers = {}
  Viewers = {}
  SipRequests = {}
  Strangers = {}
  User = "user"
  ServerPassword = "q"
  OwnPasswords = {}
  HostAddresses = {"a"}
  HomeAddress = "a"
  MaxMishaps = 0
PROPERTY
  AiEnabledRuns
CHECK_DEADLOCK FALSE
