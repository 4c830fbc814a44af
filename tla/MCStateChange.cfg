CONSTANTS
  i1 = i1
  i2 = i2
  r1 = r1
  None = None
  Gone = Gone
  Empty = Empty
  Embedded <- MCEmbedded
  Invocations <- MCInvocations
  Resources <- MCResources
  Commands <- MCCommands
  PolicyFiles <- MCPolicyFiles
  Configured = {"ro", "operator", "admin"}
  MaxVersion = 2
  MaxSwitches = 1
SPECIFICATION Spec
INVARIANTS TypeOK ApprovedBeforeApplied AskedOnlyWhenNeeded ReadOnlyChangesNothing
PROPERTIES KeepsPromise Terminates
