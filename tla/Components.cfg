SPECIFICATION Spec
CONSTANTS
  w1 = w1
  w2 = w2
  w3 = w3
  alice = alice
  bob = bob
  Nobody = Nobody
  r1 = r1
  r2 = r2
  Rooms = {r1, r2}
  Conns = {w1, w2, w3}
  Wallet <- MCWallet
  HelloWhileSubscribed = FALSE
  sponsor = sponsor
  queue = queue
  Keys = {sponsor, queue}
  Found = {sponsor}
  CAPACITY = 2
  UNITS = 2
  REFILL = 1
  SWEEP = 3
  MaxClock = 7
  m1 = m1
  m2 = m2
  m3 = m3
  Markets = {m1, m2, m3}
  Created <- MCCreated
  Opens <- MCOpens
  Expiry <- MCExpiry
  Callers = {1, 2}
  SWEEP_TTL = 2
  MIN_HEADROOM = 1
  MAX_HORIZON = 5
  MIN_DECK_SIZE = 1
  MAX_DECK_SIZE = 2
  MaxTime = 3
  MaxScans = 2
  MaxVoids = 1
  Tabs = {1}
  DeckSize = 2
  MaxMounts = 2
  ONE_PROBABILITY = 4
  SCALE = 100
  MID_HISTORY_LIMIT = 3
  MIN_SAMPLES = 3
  MIN_DEPTH = 2
  STAKE_PER_CARD = 6
  mmrMatchWindowInitial = 1
  mmrMatchWindowExpandPerSec = 1
  SHORT_LIFETIME_MAX = 1
  MID_LIFETIME_MAX = 2
  ZONE_OFFSET <- MCZoneOffset
  DEDUP_BUMP_STEP = 2
  DEDUP_MAX_BUMP = 8
  MIN_CARDS = 1
  MAX_CARDS = 20
  POS_INF_TICK = 1000000
  CERTAIN = 100
  ZONE_TARGET_PROB <- MCZoneTarget
  PRACTICE_EXPIRY_OFFSETS <- MCPracticeOffsets
  ZERO_SALT = 0
  CARD_MIN_HEADROOM = 1
  CARD_MAX_HORIZON = 5
  PROBABILITY = 4
  MAX_SAMPLES = 3
  MAX_AGE_MS = 3
  Y_FLOOR_MICRO = 1
  DEFAULT_DECK_SIZE = 5
  SWIPE_QUANTITY = 6
  MIN_MANAGER_BALANCE = 10
  REPLAY_LEAD_IN_MS = 2
  REPLAY_STEP_MS = 3
  COLUMN_NETWORK = "testnet"
  DUSDC_COIN_TYPE <- MCCoin
  LOWER <- MCLower
  DEFAULT_RATING = 1000
  K_FACTOR = 32
  EXPECTED <- MCExpected
  SEASON_MIN_STAKED_DUELS = 1
  Refused = Refused
  Malformed = Malformed
  BARE = BARE
  UNSET = UNSET
  ALIASES <- MCAliases
  ArenaMarkets = {m1, m2, m3}
  ArenaDeckSize = 2
  MaxAsked = 2
  MaxDeals = 2
  Self = alice
  Others = {bob}
  Icons = {icon1, icon2}
  Gradient = gradient
  MaxWrites = 2
  MaxReads = 2
  MaxLoads = 1
  MaxPosts = 2
  Stake = 1
  Balances = {0, 2}
  Allowances = {0, 1, 2}
  MaxMatches = 2
  MaxJoins = 2
  MaxCalls = 3
  MaxLobbyDrops = 1
  Readers = {alice}
  HISTORY_LIMIT = 2
  RETAIN_COUNT = 2
  MaxMessages = 3
  MaxReaderDrops = 1
  SHOWN_DECK = 5
  POLL_INTERVAL_MS = 20
  PLAY_ATTEMPTS = 2
  SAMPLE_INTERVAL_MS = 1
  EASE_MIN_MS = 1
  EASE_MAX_MS = 3
  PERSIST_MS = 2
  MIN_NET_PREMIUM = 1
  DRAG_COMMIT = 1
  LAST_MS = 120000
  SOON_MS = 600000
  SPOT_FLOOR = 50000
  SPOT_CEILING = 950000
  SEED_STEP = 7919
  SEED_RANGE = 2001
  SEED_UNIT = 8
  POINT_UNIT = 12
  SPEED_BONUS_WINDOW = 2
  RELAY_QUANTITY = 6
  LEAST_DECK = 2
CHECK_DEADLOCK FALSE
INVARIANTS
  TypeOK
  
  GrantsBounded
  OneScan
  DeckPlayable
  
  ArenaScoredHonestly
  StarterSparesChoices
  StakedOnce
  ChatHasNoGaps
