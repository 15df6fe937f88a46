CONSTANTS
  Keys = {a, b, c}
  Requests = {r1, r2}
  FREE_ATTEMPTS = 2
  SHORT_DELAY_ATTEMPTS = 1
  SHORT_DELAY = 1
  LONG_DELAY = 2
  FORGET_AFTER = 3
  MAX_TRACKED = 2
  None = None
  MaxAttempts = 4
  MaxTime = 5
SYMMETRY MCSymmetry
SPECIFICATION Spec
INVARIANTS CountInv
PROPERTIES GuessesAreDelayed RoomIsMadeFairly
CHECK_DEADLOCK FALSE
