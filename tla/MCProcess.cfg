SPECIFICATION FairSpec
CONSTANTS
  r1 = r1
  Null = Null  Garbled = Garbled
  Rooted = {"/_tunnel", "/t", "/api", "/"}
  Requests = {r1}
  Files <- SomeFiles
INVARIANTS
  ServesSound
  QuietExitOnlyOnSignal
PROPERTIES
  SignalEndsProcess
