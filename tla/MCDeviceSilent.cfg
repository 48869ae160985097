SPECIFICATION FairSpec
CONSTANTS
  Handlers = {h1}
  Scanner = Scanner
  Loader = Loader
  MaxUpsets = 0
  MaxDeletes = 0
PROPERTY
  SilentShownOffline
CHECK_DEADLOCK FALSE
