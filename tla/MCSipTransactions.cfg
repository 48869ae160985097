\* One caller shares a Call-ID with the device, the other has its own; each request is
\* one transaction, and a queue of one is full at the second response.
SPECIFICATION FairSpec
CONSTANTS
  c1 = c1
  c2 = c2
  dialog = dialog
  message = message
  Callers = {c1, c2}
  Keys = {dialog, message}
  CallID <- OwnCallID
  PeerKeys = {dialog}
  QueueCap = 1
  MaxRequests = 2
  MaxResponses = 2
INVARIANTS
  TableOpen
  WaiterReachable
PROPERTIES
  TransportLives
CHECK_DEADLOCK FALSE
