\* Two queries of a catalog of two channels; two subscribers, an event and the
\* cleaner; three requests with one Call-ID; a query of three recordings;
\* three messages about one device; three messages on one connection; three calls
\* of two starters or controls; header texts; commands at the ends of their ranges; commands
\* of a user with each field given, missing or at a boundary; two dialogs of up to
\* five messages, with a device that is registered and one that was loaded.
SPECIFICATION GbSpec
CONSTANTS
  CatDevices = {"d1"}
  Channels = {"c1", "c2"}
  DeviceOf <- MCDeviceOf
  Queriers = {"q1", "q2"}
  MsgCap = 1
  CreateCap = 1
  MaxNotices = 1
  SubKeys = {"k1", "k2"}
  Wants <- MCWants
  Events <- MCEvents
  Walkers = {"w1"}
  Cleaner = "clean"
  Lifetimes = {1}
  MaxSubTime = 2
  CallIds = {"a"}
  Requests = {"r1", "r2", "r3"}
  MaxDialogs = 3
  Queries = {p1}
  Handlers = {h1, h2, h3}
  SNs = {n1}
  Recorded <- MCRecorded
  Windows <- MCWindows
  Day = 4
  MaxRepeats = 1
  Nothing = Nothing
  MaxMessages = 3
  Sections = {"status", "preset"}
  StatusSection = "status"
  Contents <- MCContents
  MemCap = 1
  RowCap = 1
  MaxSeconds = 1
  MaxSent = 3
  MaxBody = 1
  Lengths = {0, 1, 3}
  Actors = {a1, a2}
  NoActor = NoActor
  MaxStarts = 2
  MaxCalls = 3
  ValueOf <- MCValueOf
  MaxPort = 5060
  MaxCSeq = 7000
  MaxUint = 8000
  SipWords = {"SIP/2.0", "Siphon"}
  ShortAt = 6
  Pieces <- MCPieces
  Numbers8 = {0, 15, 16, 255}
  Numbers16 = {0, 255, 256, 4095, 4096}
  Peers = {"p1", "p2"}
  Reached = {"p1"}
  MaxSipMessages = 5
  MaxBegun = 2
  PresetNumbers = {0, 1, 255, 256}
INVARIANTS
  GbTypeOK
  CatObserversWait
  SubServed
  RecAnswersSound
  QsLastRemains
  FramedDelivered
  HistoryNumbered
  TextKept
  PtzUnderstood
  CommandSaysAll
  MessagesSound
PROPERTIES
  CatSavedWhole
  CatCollectionEnds
  DlgOnlyReleased
  DlgTableDrains
CHECK_DEADLOCK FALSE
