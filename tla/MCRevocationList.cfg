SPECIFICATION Spec
CONSTANTS
  lost = lost  sold = sold
  Serials = {lost, sold}
  MaxEdits = 3
  CoarseClock = FALSE
  StartupEdits = FALSE
INVARIANTS
  AnswerIsFresh
  RefusedWhileListed
