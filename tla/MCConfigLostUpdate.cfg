CONSTANTS
  s1 = s1
  s2 = s2
  NoMenu = NoMenu
  NoCall = NoCall
  NoFile = NoFile
  Empty = Empty
  Broken = Broken
  c1 = c1
  c2 = c2
  Word = 1024
  Blank = ""
  NoText = ""
  Key <- MCKey
  Entry <- MCEntry
  Trimmed <- MCTrimmed
  Text <- MCText
  Sanitize <- MCSanitize
  Candidate <- MCCandidate
  NameRank <- MCNameRank
  KeyRank <- MCKeyRank
  Props <- MCProps
  Menu = {}
  Service = {s1, s2}
  Speaks <- OwnIds
  View <- MCView
  Delta <- MCDelta
  Call = {c1, c2}
  MaxInFlight = 2
  MaxCrashes = 0
  MaxFailures = 0
  MaxRevision = 3
SPECIFICATION Spec
PROPERTY HideTouchesNothingElse
