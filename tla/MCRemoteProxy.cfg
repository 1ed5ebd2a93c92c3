SPECIFICATION PFairSpec
CONSTANTS
  q1 = q1  q2 = q2  q3 = q3
  phone = phone  laptop = laptop  home = home
  NoSerial = NoSerial
  Requests = {q1, q2, q3}
  Serials = {phone, laptop, home}
  DeviceRole = {phone, laptop}
  RevocationOn = TRUE
  MaxConcurrentStreams = 2
  MaxStreamsPerCert = 2
  DurationBounded = TRUE
INVARIANTS
  BudgetsExact
  OnlyLiveDevices
PROPERTIES
  BudgetComesBack
  RevokedDeviceDrains
  RevokedTunnelDropped
  ImplementsQuota
