CONSTANTS
  Entries = {e1, e2, e3, e4, bad}
  Invalid = {bad}
  BufferSize = 2
SPECIFICATION FairSpec
INVARIANTS
  TypeOK
  EntriesAccounted
  BufferSound
PROPERTIES
  MetStayTogether
  ImplementsDelivery
  FreshIsSent
CHECK_DEADLOCK FALSE
