CONSTANTS
  s1 = s1
  s2 = s2
  Torn = Torn
  Sections <- MCSections
  Catalog <- MCCatalog
  Committed <- MCCommitted
  Embedded <- MCEmbedded
  DestructiveParts = {"wipe"}
  BulkParts = {"bulk"}
  Pinned <- MCPinned
  Overrides <- MCOverrides
  Retries = 1
  MaxChanges = 1
  MaxEdits = 2
  MaxFaults = 1
  MaxEvents = 2
  MaxKept = 1
SPECIFICATION Spec
INVARIANTS TypeOK NamesAreUnique NothingMissed  ReportNamesTheNew
  OverridesSurvive MergeKeepsItParsable RiskyIsGated
PROPERTIES SyncEnds
