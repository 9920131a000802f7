SPECIFICATION Spec
CONSTANTS
  Procs = {p1, p2}
  Requests <- LocalRequests
  Kinds = {"saml"}
  Deletable = FALSE
  NoProc = NoProc
  NoFile = NoFile
  NoRequest = NoRequest
  NoKeystore = NoKeystore
  MaxKeyId = 3
  Rotation = 1
  Retention = 1
SYMMETRY Symmetric
PROPERTIES
  KeptWhileYoung
  IdsNeverRebound
