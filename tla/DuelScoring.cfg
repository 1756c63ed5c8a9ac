\* One duel of two cards: late swipes, late settlements, a rotated keeper.
SPECIFICATION Spec
CONSTANTS
  Players = {alice, bob}
  NoPlayer = none
  Keepers = {k1, k2}
  Tokens = {usdc}
  NoToken = zero
  Vault = vault
  MaxDuels = 1
  Decks <- SwappedDecks
  Stakes = {1}
  Fills <- OneFill
  Funds = 1
  MIN_DECK_SIZE = 2
  MAX_DECK_SIZE = 2
  REVEAL_TIMEOUT_SEC = 0
  DUEL_TIMEOUT_SEC = 1
  SWIPE_DEADLINE_SEC = 1
  MaxTime = 2
  MaxSignatures = 2
  SECOND = 2
  COLLATERAL = usdc
  FAUCET_MAX = 1
SYMMETRY PlayerSymmetry
INVARIANTS
  DeckWasCommitted
  ScoreIsSumOfEvents
  RefundsAreGranted
PROPERTIES
  CompleteIsFinal
  PotIsEarned
