CONSTANTS
  p1 = p1
  p2 = p2
  c1 = c1
  c2 = c2
  g1 = g1
  Names = {"ro", "operator"}
  Clients <- MCClients
  OGs <- MCOGs
  Procs <- MCProcs
  Runs <- MCRuns
  Found <- MCFound
  MaxFaults = 1
SPECIFICATION Spec
INVARIANTS TypeOK SavesAreKept SecretBehindProfile ActiveIsConfigured
PROPERTIES OnlyTerminalSwitches SetupLeavesItUsable EndsWhenAnswered
