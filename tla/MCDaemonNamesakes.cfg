CONSTANTS
  s1 = s1
  s2 = s2
  n1 = n1
  n2 = n2
  n3 = n3
  c1 = c1
  c2 = c2
  NoMenu = NoMenu
  NameWatch = NameWatch
  NoTask = NoTask
  NoKey = NoKey
  NoService = NoService
  NoProps = NoProps
  Word = 1024
  Blank = ""
  NoText = ""
  Key <- MCKey
  Entry <- MCEntry
  Trimmed <- MCTrimmed
  Text <- MCText
  Sanitize <- MCSanitize
  Candidate <- MCCandidate
  Menu = {}
  Props <- MCProps
  Service = {s1, s2}
  Name = {n1, n2}
  NameOf <- OwnName
  EarlyName = {n1, n2}
  Speaks <- SameId
  Call = {c1, c2}
  Registers <- OneEach
  MaxChanges = 0
SPECIFICATION Spec
CHECK_DEADLOCK FALSE
PROPERTY PoolSpec
