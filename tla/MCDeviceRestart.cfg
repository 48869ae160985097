SPECIFICATION Spec
CONSTANTS
  Handlers = {h1}
  Scanner = Scanner
  Loader = Loader
  MaxUpsets = 1
  MaxDeletes = 0
PROPERTY
  LoadedOffline
CHECK_DEADLOCK FALSE
