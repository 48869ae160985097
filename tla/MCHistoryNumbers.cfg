\* Two goroutines on one channel's playback; HistoryNumbered, which excuses dialogs with
\* two requests in the making, is checked with the other services.
SPECIFICATION HistorySpec
CONSTANTS
  Actors = {a1, a2}
  NoActor = NoActor
  MaxStarts = 1
  MaxCalls = 3
INVARIANTS
  HistoryStrictlyRise
CHECK_DEADLOCK FALSE
