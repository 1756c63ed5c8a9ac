\* Two seasons over one token, two duels in two tokens, a practice deck of two cards.
SPECIFICATION EndingsSpec
CONSTANTS
  Players = {alice, bob}
  Pool = pool
  op1 = op1
  Operators = {op1, op2}
  usdc = usdc
  dai = dai
  Tokens = {usdc}
  NoToken = zero
  vault = vault
  none = none
  k1 = k1
  SeasonIds = {s1, s2}
  Amounts <- PrizeAmounts
  Funds = 2
  MaxBatch = 2
  CardCount = 2
  ExpiryOffset <- MCExpiryOffset
  START_TIMEOUT = 1
  SETTLE_GRACE = 2
  LOCKUP_STALL_BUFFER = 1
  MaxStarts = 2
  MaxDrops = 1
INVARIANTS
  PracticeShowsTruth
  TotalsExact
  PoolExact
  PrizesCovered
  
PROPERTIES
  DeckNeverRestarts
  PracticeEnds
  PaidOnce
  WinnersPaid
  StakesComeBack
