SPECIFICATION FairSpec
CONSTANTS
  Width = 6
  MaxSessions = 2
INVARIANTS
  DelayWithinBounds
  OneTunnelAtATime
  NoGoroutineLeak
PROPERTIES
  DelaysGrow
  SignalStopsRun
  Reconnects
