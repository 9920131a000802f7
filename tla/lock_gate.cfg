SPECIFICATION Spec
CONSTANTS
  term = term
  name = name
  Procs = {p1, p2}
  Scope = {term}
  Sid = {term}
  Timed = {term}
  Signalable = {term}
  NoScope = NoScope
  NoToken = NoToken
  NoLock = NoLock
  NoProfile = NoProfile
  Nothing = Nothing
  NoHours = NoHours
  Requests <- AllRequests
  ProfileHours = 2
  DefaultHours = 1
  HardCapHours = 1
  MaxVerifiers = 2
  MaxBoots = 2
  MaxLeaders = 2
SYMMETRY Symmetric
INVARIANTS
  TypeOK
PROPERTIES
  OnlyWhatWasAgreed
  OnlyInItsSession
