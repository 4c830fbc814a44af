CONSTANTS
  i1 = i1
  i2 = i2
  r1 = r1
  None = None
  Gone = Gone
  Empty = Empty
  Embedded <- MCEmbedded
  Invocations <- PairInvocations
  Resources <- MCResources
  Commands <- PairCommands
  PolicyFiles <- PairPolicyFiles
  Configured = {"operator"}
  MaxVersion = 1
  MaxSwitches = 0
SPECIFICATION Spec
INVARIANTS FreshWhenSent RowsTellTheTruth
