SPECIFICATION Spec
CONSTANTS
  Procs = {p1}
  Requests <- AllRequests
  Kinds <- AllKinds
  Deletable = TRUE
  NoProc = NoProc
  NoFile = NoFile
  NoRequest = NoRequest
  NoKeystore = NoKeystore
  MaxKeyId = 3
  Rotation = 1
  Retention = 1
INVARIANTS
  TypeOK
  NoHopelessWait
  CapturedFirst
PROPERTIES
  PlaintextStopsUse
