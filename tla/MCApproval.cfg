CONSTANTS
  t1 = t1
  t2 = t2
  Tabs <- MCTabs
  MaxRequests = 2
SPECIFICATION Spec
INVARIANTS FirstClickWins ReloadTellsTheDecision ClosedBeforeReturn
PROPERTIES WaitReturns KeepsPromise
