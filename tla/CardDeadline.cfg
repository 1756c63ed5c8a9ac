\* Two cards that expire 4 and 6 seconds after the start, on a 10 second window.
SPECIFICATION Spec
CONSTANTS
  CardsInDeck = 2
  ExpirySec <- MCExpirySec
  SECOND = 10
  SWIPE_WINDOW_MS = 100
  CARD_SWIPE_BUFFER_MS = 20
  StartedAtMs = 200
  Skew = 0
  MaxMs = 320
CHECK_DEADLOCK FALSE
INVARIANTS
  LocksAtDeadline
