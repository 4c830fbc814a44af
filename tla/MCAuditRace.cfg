CONSTANTS
  c1 = c1
  c2 = c2
  c3 = c3
  l1 = l1
  l2 = l2
  Callers <- MCCallers
  Loggers <- MCLoggers
  LoggerOf <- MCLoggerOf
  Whats = {"lock", "wipe"}
  MaxRows = 2
  MaxEdits = 0
SPECIFICATION Spec
INVARIANT UneditedFileVerifies
