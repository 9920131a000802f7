SPECIFICATION LiveSpec
CONSTANTS
  a1 = a1
  a2 = a2
  r1 = r1
  r2 = r2
  Procs = {p1, p2}
  Editors = {}
  NoProc = NoProc
  App = {a1, a2}
  Role = {r1, r2}
  NoRole = NoRole
  NoApp = NoApp
  NoEntry = NoEntry
  NoProfile = NoProfile
  NoOutput = NoOutput
  SessionDuration = 1
  AdvisoryWindow = 1
  Requests <- AskRequests
  Profiles <- AskProfiles
INVARIANTS
  LockDiscipline
  ForcedMeansFresh
PROPERTIES
  LeavesNoTrace
  NeverHangsOnAnother
