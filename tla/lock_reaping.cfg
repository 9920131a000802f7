SPECIFICATION Spec
CONSTANTS
  term = term
  name = name
  Procs = {p1}
  Scope = {term, name}
  Sid = {term}
  Timed = {}
  Signalable = {}
  NoScope = NoScope
  NoToken = NoToken
  NoLock = NoLock
  NoProfile = NoProfile
  Nothing = Nothing
  NoHours = NoHours
  Requests <- AgentRequests
  ProfileHours = NoHours
  DefaultHours = 1
  HardCapHours = 1
  MaxVerifiers = 1
  MaxBoots = 1
  MaxLeaders = 1
PROPERTIES
  ReapsOnlyTheDead
