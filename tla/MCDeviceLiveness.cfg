\* A handler beside the scanner and the loader, one upset and one deletion.
SPECIFICATION FairSpec
CONSTANTS
  Handlers = {h1}
  Scanner = Scanner
  Loader = Loader
  MaxUpsets = 1
  MaxDeletes = 1
INVARIANTS
  OnlineHasConn
PROPERTIES
  StateSettles
CHECK_DEADLOCK FALSE
