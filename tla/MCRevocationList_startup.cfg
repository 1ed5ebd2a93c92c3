SPECIFICATION Spec
CONSTANTS
  lost = lost  sold = sold
  Serials = {lost, sold}
  MaxEdits = 2
  CoarseClock = FALSE
  StartupEdits = TRUE
INVARIANTS
  AnswerIsFresh
