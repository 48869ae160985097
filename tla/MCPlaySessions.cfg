\* Two callers, live play and one history key, three starts, a device that is
\* deleted and registers again once.
SPECIFICATION Spec
CONSTANTS
  Callers = {c1, c2}
  HistoryKinds = {"playback"}
  VoiceKinds = {}
  MaxStarts = 3
  MaxDevices = 2
  NoCaller = NoCaller
SYMMETRY CallerSymmetry
INVARIANTS
  NoDoubleBye
CHECK_DEADLOCK FALSE
