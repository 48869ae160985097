SPECIFICATION Spec
CONSTANTS
  Callers = {c1}
  HistoryKinds = {}
  VoiceKinds = {}
  MaxStarts = 3
  MaxDevices = 1
  NoCaller = NoCaller
INVARIANT
  StopBeforePlay
CHECK_DEADLOCK FALSE
