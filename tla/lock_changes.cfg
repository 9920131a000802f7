SPECIFICATION Spec
CONSTANTS
  term = term
  name = name
  Procs = {p1, p2}
  Scope = {term}
  Sid = {term}
  Timed = {term}
  Signalable = {term}
  NoScope = NoScope
  NoToken = NoToken
  NoLock = NoLock
  NoProfile = NoProfile
  Nothing = Nothing
  NoHours = NoHours
  Requests <- LockRequests
  ProfileHours = NoHours
  DefaultHours = 1
  HardCapHours = 1
  MaxVerifiers = 2
  MaxBoots = 1
  MaxLeaders = 1
PROPERTIES
  ChangesNeedOldPassword
