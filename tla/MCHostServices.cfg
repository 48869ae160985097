\* The media server of the configuration; two rows of one time and a later one;
\* a camera with a call that switches it on and one that switches it off; an
\* ONVIF device; two publishers of an RTMP stream and a change of its mode; channels
\* added and deleted by hand; two pictures and a viewer of a GB28181 channel;
\* a request of any sender beside a user's edit or deletion, with one mishap.
SPECIFICATION HostSpec
CONSTANTS
  Servers = {"local"}
  Default = "local"
  MaxConnects = 2
  Rows = {1, 2, 3}
  StartOf <- MCStartOf
  Batch = 2
  Target = 1
  MaxClock = 1
  MaxPassCrashes = 1
  Cameras = {"c1"}
  Enablers = {"e1"}
  Disablers = {"d1"}
  MaxFailures = 1
  MaxRestarts = 1
  OnvifDevices = {"o1"}
  MaxSaves = 2
  MaxDbErrors = 1
  Publishers = {"p1", "p2"}
  ModeSetters = {"m1"}
  MaxServerDeaths = 1
  Adders = {"a1", "a2"}
  Deleters = {"u1", "u2"}
  Removers = {"r1"}
  OldDevices = {"d0"}
  Callers = {"s1", "s2"}
  Viewers = {"v1"}
  SipRequests = {"q1"}
  Strangers = {"q1"}
  User = "user"
  ServerPassword = "q"
  OwnPasswords = {"p"}
  HostAddresses = {"a", "b"}
  HomeAddress = "a"
  MaxMishaps = 1
INVARIANTS
  HostTypeOK
  CleanNoOrphans
  StreamFollowed
  ChannelsCounted
  SnapStreamOfFlight
  AnsweredOnce
PROPERTIES
  NodeShown
  CleanOldestFirst
  CleanExpiredGo
  AiFollowsRows
  OnvifShown
  AcceptedAsRegistered
CHECK_DEADLOCK FALSE
