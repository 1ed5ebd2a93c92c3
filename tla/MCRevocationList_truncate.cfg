SPECIFICATION Spec
CONSTANTS
  lost = lost  sold = sold
  Serials = {lost, sold}
  MaxEdits = 1
  CoarseClock = FALSE
  StartupEdits = FALSE
INVARIANTS
  KeptThroughSave
