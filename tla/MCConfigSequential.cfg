CONSTANTS
  s1 = s1
  s2 = s2
  NoMenu = NoMenu
  NoCall = NoCall
  NoFile = NoFile
  Empty = Empty
  Broken = Broken
  c1 = c1
  c2 = c2
  Word = 1024
  Blank = ""
  NoText = ""
  Key <- MCKey
  Entry <- MCEntry
  Trimmed <- MCTrimmed
  Text <- MCText
  Sanitize <- MCSanitize
  Candidate <- MCCandidate
  NameRank <- MCNameRank
  KeyRank <- MCKeyRank
  Props <- MCProps
  Menu = {}
  Service = {s1, s2}
  Speaks <- OwnIds
  View <- MCView
  Delta <- MCDelta
  Call = {c1, c2}
  MaxInFlight = 1
  MaxCrashes = 1
  MaxFailures = 1
  MaxRevision = 4
SPECIFICATION Spec
INVARIANTS TypeOK NeverHalfWritten DiskFollowsMemory
PROPERTIES DurableSpec MoveIsShown
