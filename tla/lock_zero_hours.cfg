SPECIFICATION Spec
CONSTANTS
  term = term
  name = name
  Procs = {p1}
  Scope = {term}
  Sid = {term}
  Timed = {term}
  Signalable = {term}
  NoScope = NoScope
  NoToken = NoToken
  NoLock = NoLock
  NoProfile = NoProfile
  Nothing = Nothing
  NoHours = NoHours
  Requests <- PinRequests
  ProfileHours = 0
  DefaultHours = 1
  HardCapHours = 1
  MaxVerifiers = 1
  MaxBoots = 1
  MaxLeaders = 1
PROPERTIES
  NoOneTimePin
