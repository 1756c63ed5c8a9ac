\* Two duels over one pooled balance, three players, signatures relayed late or never.
SPECIFICATION Spec
CONSTANTS
  Players = {alice, bob, carol}
  NoPlayer = none
  Keepers = {k1}
  Tokens = {usdc}
  NoToken = zero
  Vault = vault
  MaxDuels = 2
  Decks <- OneDeck
  Stakes = {1}
  Fills <- OneFill
  Funds = 2
  MIN_DECK_SIZE = 1
  MAX_DECK_SIZE = 1
  REVEAL_TIMEOUT_SEC = 0
  DUEL_TIMEOUT_SEC = 0
  SWIPE_DEADLINE_SEC = 0
  MaxTime = 0
  MaxSignatures = 2
  SECOND = 2
  COLLATERAL = usdc
  FAUCET_MAX = 1
SYMMETRY PlayerSymmetry
INVARIANTS
  TypeOK
  EscrowExact
  SwipesAuthorized
PROPERTIES
  ImplementsEscrow
