SPECIFICATION Spec
CONSTANTS
  FrameSizes <- MCFrameSizes
  IconPixels = 8
  PropValues <- MCPropValues
  UpdateLists <- MCUpdateLists
  RemovalLists <- MCRemovalLists
  Layouts <- MCLayouts
  Spellings <- MCSpellings
  Caller <- MCCaller
  MaxChanges = 2
  MaxEdits = 2
INVARIANTS
  IconNeverLost
  BestPixmapShown
  BadgesStayInside
  EveryItemHasAName
  RegistrationIdsResolveBack
  PatchedIsRefetched
  InflateUndoesFlatten
  PanelShowsTheMenu
