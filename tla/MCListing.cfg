CONSTANTS
  Items = {1, 2, 3, 4, 5, 6}
  Starts <- MCStarts
  Sizes = {1, 2, 3}
  Shapes <- MCShapes
  NoMeta = NoMeta
  MaxPage = 7
  MaxChanges = 2
  MaxFaults = 2
SPECIFICATION Spec
INVARIANTS OnlyRemovalsHide OnlyAdditionsRepeat NoPageTooMany
PROPERTIES WalkEnds
CHECK_DEADLOCK FALSE
