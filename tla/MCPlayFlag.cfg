\* Two callers, three session kinds, a device that keeps its identity; liveness.
SPECIFICATION FairSpec
CONSTANTS
  Callers = {c1, c2}
  HistoryKinds = {"playback"}
  VoiceKinds = {"talk"}
  MaxStarts = 2
  MaxDevices = 1
  NoCaller = NoCaller
INVARIANTS
  StartedIsOwn
  FlagOfLastSection
PROPERTY
  OperationsReturn
CHECK_DEADLOCK FALSE
