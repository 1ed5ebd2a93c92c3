SPECIFICATION FairSpec
CONSTANTS
  s1 = s1  s2 = s2
  r1 = r1
  home = home
  good = good  stray = stray
  NoSess = NoSess  NoCert = NoCert
  Sessions = {s1, s2}
  Requests = {r1}
  Endpoints = {home}
  Certs = {good, stray}
  TunnelRole = {good, stray}
  PinnedCN = {good}
  RevocationOn = TRUE
INVARIANTS
  RegistryPair
  NoOrphanSession
  TakeoverReported
  ForwardOnlyAdmitted
  CheckedTunnelNotRevoked
PROPERTIES
  LiveTunnelNeverCleared
  ClosedForCause
  ImplementsSlot
  DeadTunnelLeaves
  ShutdownDrains
  RevokedTunnelClosed
