\* A swipe relayed after its card was settled.
SPECIFICATION Spec
CONSTANTS
  Players = {alice, bob}
  NoPlayer = none
  Keepers = {k1}
  Tokens = {usdc}
  NoToken = zero
  Vault = vault
  MaxDuels = 1
  Decks <- OneCardDecks
  Stakes = {1}
  Fills <- OneFill
  Funds = 1
  MIN_DECK_SIZE = 1
  MAX_DECK_SIZE = 1
  REVEAL_TIMEOUT_SEC = 1
  DUEL_TIMEOUT_SEC = 2
  SWIPE_DEADLINE_SEC = 1
  MaxTime = 1
  MaxSignatures = 2
  SECOND = 2
  COLLATERAL = usdc
  FAUCET_MAX = 1
INVARIANTS
  EverySwipeIsScored
