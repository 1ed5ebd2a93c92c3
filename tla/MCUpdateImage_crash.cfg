SPECIFICATION Spec
CONSTANTS
  v1 = v1  v2 = v2  broken = broken  forged = forged
  NoImage = NoImage
  Images = {v1, v2, broken, forged}
  Boot = v1
  Signed = {v1, v2, broken}
  Healthy = {v1, v2, forged}
  MaxFaults <- CrashOnly
INVARIANTS
  FailedMeansServing
