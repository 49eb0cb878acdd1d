CONSTANTS
  s1 = s1
  s2 = s2
  s3 = s3
  m1 = m1
  NoMenu = NoMenu
  Nobody = Nobody
  MaxRevision = 5
  Word = 1024
  Blank = ""
  NoText = ""
  Key <- MCKey
  Entry <- MCEntry
  Trimmed <- MCTrimmed
  Text <- MCText
  Sanitize <- MCSanitize
  Candidate <- MCCandidate
  Props <- AllProps
  NameRank <- MCNameRank
  KeyRank <- MCKeyRank
  RawConfig <- ViewConfig
  Service = {s1, s2, s3}
  Menu = {m1}
SPECIFICATION MCSpec
INVARIANTS TypeOK KeysUnique EveryItemOnce
PROPERTIES NoKeyHandover KeyKeptWhileRegistered PoolSpec PictureChangesAnnounced ConfigChangesPersisted
SYMMETRY Symmetric
