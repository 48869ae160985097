\* Two callers of one device; the counters start two or one below their last number,
\* so that the second call on a counter wraps it or does not.
SPECIFICATION FairSpec
CONSTANTS
  Callers = {c1, c2}
  Handlers = {h1}
  Devices = {d1}
  FirstSNs = {0, 1}
  Width = 3
  MaxCalls = 2
  MaxReplies = 2
INVARIANTS
  AnsweredByOwn
  WaiterKnown
  EntriesOwned
PROPERTY
  KeepsPromise
CHECK_DEADLOCK FALSE
