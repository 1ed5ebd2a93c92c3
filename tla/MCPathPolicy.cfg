SPECIFICATION Spec
CONSTANTS
  Names = {"api", "event"}
  MaxSegments = 4
  Allowlists <- Lists
  TunnelPath <- Tunnel
INVARIANTS
  OnlyAllowedPlaces
  OnlyOthersForbidden
